---- MODULE Spec2Model ----
(***************************************************************************)
(* Schedule-adjusted EPA ratings (scripts/sos_adjustment.py).              *)
(*                                                                         *)
(* compute_sos_adjusted_off_def is modelled statement by statement: the    *)
(* required-column check, the empty-table check, the team index, the       *)
(* accumulation loop over the rows, the equation-count check, the ridge    *)
(* term, the linear solve, the centring and the returned frame.            *)
(* compute_sos_adjusted_net_epa and compute_split_sos_faced are modelled   *)
(* the same way.                                                           *)
(*                                                                         *)
(*   Spec       one call of either estimator on a drawn table and lam      *)
(*   SpecCalls  a caller rating up to MaxCalls tables one after another    *)
(*   SpecSos    one call of compute_split_sos_faced                        *)
(*                                                                         *)
(* Numbers: play counts, EPA values and lam are integers (EPA in fixed     *)
(* units); NaN is a distinguished value.  The solve is exact: a rating is  *)
(* a rational <<numerator, denominator>> in lowest terms.                  *)
(***************************************************************************)
EXTENDS Integers, Sequences, FiniteSets, TLC

(***************************************************************************)
(* Bounds of the model.                                                    *)
(***************************************************************************)
\* the most rows a drawn observation table has
MaxRows == 2
\* the most calls a caller makes in a row
MaxCalls == 3

(***************************************************************************)
(* Numbers.                                                                *)
(***************************************************************************)
\* float("nan"): the one value pd.notna rejects and no comparison accepts
NaN == 9999

notna(x) == x # NaN

Abs(x) == IF x < 0 THEN -x ELSE x

RECURSIVE GCD(_, _)
GCD(a, b) == IF b = 0 THEN Abs(a) ELSE GCD(b, a % b)

\* the rational n/d (d # 0) in lowest terms with a positive denominator
Frac(n, d) ==
    LET g == GCD(Abs(n), Abs(d))
        s == IF d < 0 THEN -1 ELSE 1
    IN  <<(s * n) \div g, (s * d) \div g>>

Zero == <<0, 1>>
RAdd(p, q) == Frac(p[1] * q[2] + q[1] * p[2], p[2] * q[2])
RSub(p, q) == Frac(p[1] * q[2] - q[1] * p[2], p[2] * q[2])
RMul(p, q) == Frac(p[1] * q[1], p[2] * q[2])
RDivInt(p, k) == Frac(p[1], p[2] * k)
RLess(p, q) == p[1] * q[2] < q[1] * p[2]

\* IEEE comparison: false as soon as one operand is NaN
FloatGt(x, y) == notna(x) /\ notna(y) /\ x > y

\* the sum x[0] + ... + x[n-1] of a vector of rationals
RECURSIVE RSum(_, _)
RSum(x, n) == IF n = 0 THEN Zero ELSE RAdd(RSum(x, n - 1), x[n - 1])

\* numpy: x.mean() for a vector of n > 0 entries
Mean(x, n) == RDivInt(RSum(x, n), n)

(***************************************************************************)
(* Matrices are functions on 0..n-1 (numpy's indexing).                    *)
(***************************************************************************)
\* the function f itself; TLC then holds it as a table of values instead of
\* re-evaluating its expression at every application
Strict(f) == f @@ <<>>

\* np.zeros((n, n)), np.zeros(n)
ZeroMatrix(n) == [i \in 0..(n - 1) |-> [j \in 0..(n - 1) |-> 0]]
ZeroVector(n) == [i \in 0..(n - 1) |-> 0]

\* first row r in k..n-1 with M[r][k] # 0, or -1 when the column is zero
RECURSIVE PivotRow(_, _, _, _)
PivotRow(M, n, k, r) ==
    IF r >= n THEN -1
    ELSE IF M[r][k] # 0 THEN r
    ELSE PivotRow(M, n, k, r + 1)

SwapRows(M, a, b) ==
    [i \in DOMAIN M |-> IF i = a THEN M[b] ELSE IF i = b THEN M[a] ELSE M[i]]

\* (x * y - u * v) / d for a d # 0 that divides it, with the quotients of y
\* and v taken out first so that the products stay small
CrossQuotient(x, y, u, v, d) ==
    LET a == Abs(d)
        s == IF d < 0 THEN -1 ELSE 1
    IN  s * (x * (y \div a) - u * (v \div a) + (x * (y % a) - u * (v % a)) \div a)

\* fraction-free elimination with row pivoting: the determinant of M
RECURSIVE Eliminate(_, _, _, _, _)
Eliminate(M, n, k, prev, sign) ==
    IF k = n - 1 THEN sign * M[k][k]
    ELSE LET r == PivotRow(M, n, k, k) IN
         IF r = -1 THEN 0
         ELSE LET P == IF r = k THEN M ELSE SwapRows(M, k, r)
                  s == IF r = k THEN sign ELSE -sign
                  Q == Strict([i \in 0..(n - 1) |-> Strict([j \in 0..(n - 1) |->
                         IF i > k /\ j > k
                         THEN CrossQuotient(P[i][j], P[k][k], P[i][k], P[k][j], prev)
                         ELSE P[i][j]])])
              IN  Eliminate(Q, n, k + 1, P[k][k], s)

Det(M, n) == IF n = 0 THEN 1 ELSE Eliminate(M, n, 0, 1, 1)

ReplaceColumn(M, n, c, b) ==
    Strict([i \in 0..(n - 1) |->
        Strict([j \in 0..(n - 1) |-> IF j = c THEN b[i] ELSE M[i][j]])])

Singular(M, n) == Det(M, n) = 0

\* np.linalg.solve(M, b) for a non-singular M: the unique x with M x = b
LinSolve(M, n, b) ==
    LET d == Det(M, n)
    IN  [i \in 0..(n - 1) |-> Frac(Det(ReplaceColumn(M, n, i, b), n), d)]

(***************************************************************************)
(* The observation table.                                                  *)
(***************************************************************************)
\* every team identifier, in the order sorted() gives
TeamOrder == <<"A", "B", "C">>
AllTeams == {TeamOrder[i] : i \in DOMAIN TeamOrder}

\* a required set that forgets the opp column
RequiredOffDef_NoOpp == {"team", "off_epa_pp", "off_plays", "def_epa_pp", "def_plays"}

\* line 67: the columns compute_sos_adjusted_off_def requires
RequiredOffDef ==
    {"team", "opp", "off_epa_pp", "off_plays", "def_epa_pp", "def_plays"}

\* (off_epa_pp, off_plays, def_epa_pp, def_plays) of the rows the model draws:
\* positive, zero, negative and NaN play counts, finite and NaN values
Samples ==
    { <<1, 2, 1, 1>>, <<-1, 1, -1, 2>>, <<0, 1, 0, 2>>,
      <<0, 0, 0, 0>>, <<1, 0, -1, 0>>,
      <<NaN, 1, 1, 2>>, <<1, 2, NaN, 1>>,
      <<1, NaN, 0, 1>>, <<0, 1, 1, NaN>>, <<1, -1, -1, 2>>, <<1, 1, 1, -1>>,
      <<-1, 2, 1, 0>> }

\* a third team meets B with fewer samples
FewSamples == { <<1, 2, 1, 1>>, <<0, 2, 0, 1>>, <<0, 0, 0, 0>> }

Game(team, opp, s) ==
    [team |-> team, opp |-> opp, off_epa_pp |-> s[1], off_plays |-> s[2],
     def_epa_pp |-> s[3], def_plays |-> s[4]]

Rows ==
    {Game("A", "B", s) : s \in Samples} \cup {Game("B", "A", s) : s \in Samples}
        \cup {Game("C", "B", s) : s \in FewSamples}

\* every table of at most k rows
Tables(k) == UNION {[1..m -> Rows] : m \in 0..k}

\* the table a caller passes when it holds only the columns cols
Project(t, cols) ==
    [i \in DOMAIN t |-> [c \in cols \cap DOMAIN t[i] |-> t[i][c]]]

ColumnSets ==
    {RequiredOffDef, RequiredOffDef \cup {"season"}}
        \cup {RequiredOffDef \ {c} : c \in RequiredOffDef}
        \cup {{"team", "opp", "net_epa_pp", "plays"}}

\* the ridge strengths the model draws (lam >= 0)
Lams == {0, 1, 2}

VARIABLES
    columns,         \* team_games.columns
    team_games,      \* the rows of the observation table
    lam,             \* the ridge strength
    pc,              \* the statement the call is at
    teams,           \* line 75: the sorted team universe
    team_to_idx,     \* line 76
    n,               \* line 78
    total_vars,      \* line 79
    AtA,             \* line 81
    Atb,             \* line 82
    equation_count,  \* line 83
    row_pos,         \* the row the loop of line 91 is at (1-based)
    ratings,         \* lines 127 and 130
    result,          \* what the call returned or raised
    off_rating,      \* compute_split_sos_faced: the offense ratings passed in
    def_rating,      \* compute_split_sos_faced: the defense ratings passed in
    opp_def_rating,  \* line 173
    opp_off_rating,  \* line 174
    off_sum,         \* line 178
    off_total,       \* line 179
    def_sum,         \* line 183
    def_total,       \* line 184
    sos,             \* what compute_split_sos_faced returned
    A,               \* compute_sos_adjusted_net_epa: line 35
    b,               \* line 36
    w,               \* line 37
    lhs,             \* line 50
    rhs,             \* line 51
    net_result,      \* what compute_sos_adjusted_net_epa returned or raised
    history,         \* the calls of compute_sos_adjusted_off_def that have returned
    game_rows,       \* compute_records: the table passed in, or None
    records,         \* records.py line 19
    groups,          \* line 20: the keys of game_rows.groupby("team"), sorted
    group_pos,       \* the group the loop of line 20 is at (1-based)
    group,           \* line 20: the rows of that group
    group_row,       \* the row the loop of line 23 is at (1-based)
    wins,            \* line 21
    losses,          \* line 21
    ties,            \* line 21
    counted,         \* line 22
    records_result,  \* what compute_records returned or raised
    pbp,             \* compute_team_game_epa: the play-by-play table passed in
    week,            \* the week passed in
    df,              \* epa_od_fetcher.py line 157
    home_col,        \* lines 159-163
    away_col,        \* lines 159-163
    off,             \* line 166
    deff,            \* line 174
    merged,          \* line 182
    team_game_epa,   \* what compute_team_game_epa returned or raised
    db_path,         \* init_db: the database file at db_path
    legacy,          \* the database file as it was when init_db was called
    conn,            \* db_storage.py line 51, and what init_db returned
    existing_columns,\* line 70
    migration,       \* the entry the loop of line 81 is at (1-based)
    mode_df,         \* apply_epa_mode: the table passed in
    mode,            \* the mode passed in
    window,          \* the window passed in
    sorted_df,       \* team_epa_modes.py line 139
    grouped,         \* line 155: the group keys, sorted
    group_key_pos,   \* the group grouped.apply is at (1-based)
    applied,         \* line 157: the frames transform has returned
    mode_result,     \* lines 157-163, and what apply_epa_mode returned or raised
    team_epa_weekly, \* db_storage.py lines 32-46: the rows of the weekly table
    store_call,      \* the call of save_team_epa_snapshot or get_cached_weeks under way
    df_to_write,     \* lines 179-183, as the tuples of lines 206-219
    write_pos,       \* the tuple executemany is at (1-based)
    store_result,    \* what the last call returned or raised
    saved            \* the calls of save_team_epa_snapshot that have returned, in order

vars == <<columns, team_games, lam, pc, teams, team_to_idx, n, total_vars,
          AtA, Atb, equation_count, row_pos, ratings, result,
          off_rating, def_rating, opp_def_rating, opp_off_rating,
          off_sum, off_total, def_sum, def_total, sos,
          A, b, w, lhs, rhs, net_result, history,
          game_rows, records, groups, group_pos, group, group_row,
          wins, losses, ties, counted, records_result,
          pbp, week, df, home_col, away_col, off, deff, merged, team_game_epa,
          db_path, legacy, conn, existing_columns, migration,
          mode_df, mode, window, sorted_df, grouped, group_key_pos, applied,
          mode_result,
          team_epa_weekly, store_call, df_to_write, write_pos, store_result, saved>>

\* the variables of save_team_epa_snapshot and get_cached_weeks
StoreVars == <<team_epa_weekly, store_call, df_to_write, write_pos, store_result, saved>>

\* the variables of init_db
DbVars == <<db_path, legacy, conn, existing_columns, migration>>

\* the variables of apply_epa_mode
ModesVars == <<mode_df, mode, window, sorted_df, grouped, group_key_pos, applied,
               mode_result>>

\* the variables of compute_team_game_epa
FetcherVars == <<pbp, week, df, home_col, away_col, off, deff, merged, team_game_epa>>

\* the variables of compute_records
RecordsVars == <<game_rows, records, groups, group_pos, group, group_row,
                 wins, losses, ties, counted, records_result>>

\* the variables of the modules other than sos_adjustment
Elsewhere == <<RecordsVars, FetcherVars, DbVars, ModesVars, StoreVars>>

\* game_rows is None
NoTable == [kind |-> "None", columns |-> {}, rows |-> <<>>]
\* compute_records has not returned
NoRecords == [kind |-> "none", value |-> <<>>]

\* no call of compute_records
NoRecordsCall ==
    /\ game_rows = NoTable
    /\ records = <<>>
    /\ groups = <<>>
    /\ group_pos = 0
    /\ group = <<>>
    /\ group_row = 0
    /\ wins = 0
    /\ losses = 0
    /\ ties = 0
    /\ counted = 0
    /\ records_result = NoRecords

\* compute_team_game_epa has not returned
NoTeamGames == [kind |-> "none", rows |-> {}]

\* no call of compute_team_game_epa
NoFetcherCall ==
    /\ pbp = NoTable
    /\ week = 0
    /\ df = <<>>
    /\ home_col = "None"
    /\ away_col = "None"
    /\ off = {}
    /\ deff = {}
    /\ merged = {}
    /\ team_game_epa = NoTeamGames

\* a database file that does not exist yet
NoDatabase ==
    [team_epa |-> FALSE,
     team_epa_weekly |-> [exists |-> FALSE, columns |-> {}],
     team_epa_games |-> [exists |-> FALSE, rows |-> <<>>]]

\* no call of init_db
NoDbCall ==
    /\ db_path = NoDatabase
    /\ legacy = NoDatabase
    /\ conn = "None"
    /\ existing_columns = {}
    /\ migration = 0

\* apply_epa_mode has not returned
NoModeResult == [kind |-> "none", rows |-> <<>>]

\* no call of apply_epa_mode
NoModesCall ==
    /\ mode_df = NoTable
    /\ mode = "None"
    /\ window = 0
    /\ sorted_df = <<>>
    /\ grouped = <<>>
    /\ group_key_pos = 0
    /\ applied = <<>>
    /\ mode_result = NoModeResult

\* no call of the weekly store under way and none made yet
NoStoreCommand == [op |-> "none", columns |-> {}, df |-> <<>>, season |-> 0, week |-> 0]
NoStoreResult == [kind |-> "none", weeks |-> <<>>]

\* the weekly table is empty and no call has touched it
NoStoreCall ==
    /\ team_epa_weekly = {}
    /\ store_call = NoStoreCommand
    /\ df_to_write = <<>>
    /\ write_pos = 0
    /\ store_result = NoStoreResult
    /\ saved = <<>>

\* nothing runs outside sos_adjustment
ElsewhereIdle == NoRecordsCall /\ NoFetcherCall /\ NoDbCall /\ NoModesCall /\ NoStoreCall

\* the variables of compute_split_sos_faced
SosInputs == <<off_rating, def_rating>>
SosLocals == <<opp_def_rating, opp_off_rating, off_sum, off_total, def_sum, def_total>>
\* the variables compute_sos_adjusted_off_def does not touch
NotOffDef == <<SosInputs, SosLocals, sos, A, b, w, lhs, rhs, net_result, history,
               Elsewhere>>

NoResult == [kind |-> "none", index |-> <<>>, off_rating |-> <<>>, def_rating |-> <<>>]

\* pd.DataFrame(columns=["off_rating", "def_rating"]): no rows
EmptyFrame ==
    [kind |-> "DataFrame", index |-> <<>>, off_rating |-> <<>>, def_rating |-> <<>>]

\* compute_sos_adjusted_net_epa has not returned
NoSeries == [kind |-> "none", index |-> <<>>, values |-> <<>>]
\* pd.Series(ratings, index=teams, name="net_epa_pp_sos_adj")
RatingSeries(ix, x) == [kind |-> "Series", index |-> ix, values |-> x]
RaisedSeries(exc) == [kind |-> exc, index |-> <<>>, values |-> <<>>]

\* compute_split_sos_faced has not returned
NoSos == [kind |-> "none", index |-> <<>>, sos_off |-> <<>>, sos_def |-> <<>>]

Raised(exc) == [kind |-> exc, index |-> <<>>, off_rating |-> <<>>, def_rating |-> <<>>]

\* a universe in order of first appearance in the rows, not sorted
TeamUniverse_FirstSeen(t) ==
    LET RECURSIVE Seen(_)
        Seen(k) ==
            IF k = 0 THEN <<>>
            ELSE LET before == Seen(k - 1)
                     named == {before[i] : i \in DOMAIN before}
                     withTeam == IF t[k].team \in named THEN before
                                 ELSE Append(before, t[k].team)
                 IN  IF t[k].opp \in named \cup {t[k].team} THEN withTeam
                     ELSE Append(withTeam, t[k].opp)
    IN  Seen(Len(t))

\* sorted(set(team_games["team"]) | set(team_games["opp"]))
TeamUniverse(t) ==
    LET S == {t[i].team : i \in DOMAIN t} \cup {t[i].opp : i \in DOMAIN t}
    IN  SelectSeq(TeamOrder, LAMBDA x : x \in S)

\* {team: idx for idx, team in enumerate(teams)}
Enumerate(ts) == [x \in {ts[i] : i \in DOMAIN ts} |->
                     (CHOOSE i \in DOMAIN ts : ts[i] = x) - 1]

off_idx(idx, team) == idx[team]
\* a defense index without the offset: the offense slot of the team
def_idx_NoOffset(idx, nTeams, team) == idx[team]

def_idx(idx, nTeams, team) == idx[team] + nTeams

\* M[i, j] += d
AddAt(M, i, j, d) == [M EXCEPT ![i][j] = @ + d]

\* an accumulation that adds the weight, not weight * value, to Atb
AddEquation_WeightOnly(acc, t, o, weight, y) ==
    [AtA |-> AddAt(AddAt(AddAt(AddAt(acc.AtA, t, t, weight), o, o, weight),
                         t, o, -weight), o, t, -weight),
     Atb |-> [acc.Atb EXCEPT ![t] = @ + weight, ![o] = @ - weight * y],
     equation_count |-> acc.equation_count + 1]

\* an accumulation that leaves out the entry AtA[o, t]
AddEquation_NoTranspose(acc, t, o, weight, y) ==
    [AtA |-> AddAt(AddAt(AddAt(acc.AtA, t, t, weight), o, o, weight), t, o, -weight),
     Atb |-> [acc.Atb EXCEPT ![t] = @ + weight * y, ![o] = @ - weight * y],
     equation_count |-> acc.equation_count + 1]

\* an accumulation whose off-diagonal entries take +weight
AddEquation_SameSign(acc, t, o, weight, y) ==
    [AtA |-> AddAt(AddAt(AddAt(AddAt(acc.AtA, t, t, weight), o, o, weight),
                         t, o, weight), o, t, weight),
     Atb |-> [acc.Atb EXCEPT ![t] = @ + weight * y, ![o] = @ - weight * y],
     equation_count |-> acc.equation_count + 1]

\* lines 101-107 and 115-121: one constraint x_t - x_o = y of weight w
AddEquation(acc, t, o, weight, y) ==
    [AtA |-> AddAt(AddAt(AddAt(AddAt(acc.AtA, t, t, weight), o, o, weight),
                         t, o, -weight), o, t, -weight),
     Atb |-> [acc.Atb EXCEPT ![t] = @ + weight * y, ![o] = @ - weight * y],
     equation_count |-> acc.equation_count + 1]

\* a value test that keeps positive values only
OffenseCounts_PositiveValue(row) ==
    FloatGt(row.off_plays, 0) /\ FloatGt(row.off_epa_pp, 0)

\* a weight test that lets zero play counts through
OffenseCounts_NonNegative(row) ==
    notna(row.off_plays) /\ row.off_plays >= 0 /\ notna(row.off_epa_pp)

\* line 97
OffenseCounts(row) == FloatGt(row.off_plays, 0) /\ notna(row.off_epa_pp)
\* a value test that forgets pd.notna
DefenseCounts_NoNotna(row) == FloatGt(row.def_plays, 0)

\* line 111
DefenseCounts(row) == FloatGt(row.def_plays, 0) /\ notna(row.def_epa_pp)

\* lines 95-107: the offense equation O_team - D_opp = off_epa_pp
OffenseStep(acc, idx, nTeams, row) ==
    IF OffenseCounts(row)
    THEN AddEquation(acc, off_idx(idx, row.team), def_idx(idx, nTeams, row.opp),
                     row.off_plays, row.off_epa_pp)
    ELSE acc

\* a defense equation with the two unknowns swapped: O_opp - D_team = def_epa_pp
DefenseStep_SwappedUnknowns(acc, idx, nTeams, row) ==
    IF DefenseCounts(row)
    THEN AddEquation(acc, off_idx(idx, row.opp), def_idx(idx, nTeams, row.team),
                     row.def_plays, row.def_epa_pp)
    ELSE acc

\* lines 109-121: the defense equation D_team - O_opp = def_epa_pp
DefenseStep(acc, idx, nTeams, row) ==
    IF DefenseCounts(row)
    THEN AddEquation(acc, def_idx(idx, nTeams, row.team), off_idx(idx, row.opp),
                     row.def_plays, row.def_epa_pp)
    ELSE acc

\* lines 91-121: one iteration of the loop
RowStep(acc, idx, nTeams, row) ==
    DefenseStep(OffenseStep(acc, idx, nTeams, row), idx, nTeams, row)

\* a ridge added to every entry: lam * np.ones(...)
AddRidge_EveryEntry(M, tv, l) ==
    [i \in 0..(tv - 1) |-> [j \in 0..(tv - 1) |-> M[i][j] + l]]

\* a ridge on the offense half of the diagonal only
AddRidge_OffenseOnly(M, tv, l) ==
    [i \in 0..(tv - 1) |->
        [j \in 0..(tv - 1) |-> IF i = j /\ 2 * i < tv THEN M[i][j] + l ELSE M[i][j]]]

\* AtA += lam * np.eye(total_vars)
AddRidge(M, tv, l) ==
    [i \in 0..(tv - 1) |-> [j \in 0..(tv - 1) |-> IF i = j THEN M[i][j] + l ELSE M[i][j]]]

\* a centring on the mean of the offense half only
Centre_OffenseMean(x, tv) ==
    LET mu == Mean(x, tv \div 2) IN [i \in 0..(tv - 1) |-> RSub(x[i], mu)]

\* a step that moves the offense half up by one and the defense half down by one
Centre_OppositeHalves(x, tv) ==
    [i \in 0..(tv - 1) |->
        IF 2 * i < tv THEN RAdd(x[i], <<1, 1>>) ELSE RSub(x[i], <<1, 1>>)]

\* ratings - ratings.mean()
Centre(x, tv) == LET mu == Mean(x, tv) IN [i \in 0..(tv - 1) |-> RSub(x[i], mu)]

\* a frame that reads the defense half as offense and the offense half as defense
RatingFrame_HalvesSwapped(ts, nTeams, x) ==
    [kind |-> "DataFrame",
     index |-> ts,
     off_rating |-> [i \in DOMAIN ts |-> x[nTeams + i - 1]],
     def_rating |-> [i \in DOMAIN ts |-> x[i - 1]]]

\* lines 132-134: the frame indexed by teams
RatingFrame(ts, nTeams, x) ==
    [kind |-> "DataFrame",
     index |-> ts,
     off_rating |-> [i \in DOMAIN ts |-> x[i - 1]],
     def_rating |-> [i \in DOMAIN ts |-> x[nTeams + i - 1]]]

(***************************************************************************)
(* compute_sos_adjusted_off_def, one action per statement.                 *)
(***************************************************************************)
Locals == <<teams, team_to_idx, n, total_vars, AtA, Atb, equation_count, row_pos, ratings>>
Inputs == <<columns, team_games, lam>>

\* lines 67-70
CheckColumns ==
    /\ pc = "check_columns"
    /\ IF RequiredOffDef \ columns # {}
       THEN /\ result' = Raised("ValueError")
            /\ pc' = "done"
       ELSE /\ result' = result
            /\ pc' = "check_empty"
    /\ UNCHANGED NotOffDef
    /\ UNCHANGED <<Inputs, Locals>>

\* lines 72-73
CheckEmpty ==
    /\ pc = "check_empty"
    /\ IF Len(team_games) = 0
       THEN /\ result' = EmptyFrame
            /\ pc' = "done"
       ELSE /\ result' = result
            /\ pc' = "build_index"
    /\ UNCHANGED NotOffDef
    /\ UNCHANGED <<Inputs, Locals>>

\* an index step that reuses accumulators of the right shape left by an
\* earlier call instead of zeroing them
BuildIndex_ReusedAccumulators ==
    /\ pc = "build_index"
    /\ teams' = TeamUniverse(team_games)
    /\ team_to_idx' = Enumerate(teams')
    /\ n' = Len(teams')
    /\ total_vars' = n' * 2
    /\ AtA' = IF DOMAIN AtA = 0..(total_vars' - 1) THEN AtA ELSE ZeroMatrix(total_vars')
    /\ Atb' = IF DOMAIN Atb = 0..(total_vars' - 1) THEN Atb ELSE ZeroVector(total_vars')
    /\ equation_count' = 0
    /\ row_pos' = 1
    /\ pc' = "accumulate"
    /\ UNCHANGED NotOffDef
    /\ UNCHANGED <<Inputs, ratings, result>>

\* lines 75-83
BuildIndex ==
    /\ pc = "build_index"
    /\ teams' = TeamUniverse(team_games)
    /\ team_to_idx' = Enumerate(teams')
    /\ n' = Len(teams')
    /\ total_vars' = n' * 2
    /\ AtA' = ZeroMatrix(total_vars')
    /\ Atb' = ZeroVector(total_vars')
    /\ equation_count' = 0
    /\ row_pos' = 1
    /\ pc' = "accumulate"
    /\ UNCHANGED NotOffDef
    /\ UNCHANGED <<Inputs, ratings, result>>

\* lines 91-121, one row
AccumulateRow ==
    /\ pc = "accumulate"
    /\ row_pos <= Len(team_games)
    /\ LET acc == RowStep([AtA |-> AtA, Atb |-> Atb, equation_count |-> equation_count],
                          team_to_idx, n, team_games[row_pos])
       IN  /\ AtA' = acc.AtA
           /\ Atb' = acc.Atb
           /\ equation_count' = acc.equation_count
    /\ row_pos' = row_pos + 1
    /\ UNCHANGED NotOffDef
    /\ UNCHANGED <<Inputs, pc, teams, team_to_idx, n, total_vars, ratings, result>>

\* lines 123-124
CheckEquations ==
    /\ pc = "accumulate"
    /\ row_pos > Len(team_games)
    /\ IF equation_count = 0
       THEN /\ result' = EmptyFrame
            /\ pc' = "done"
       ELSE /\ result' = result
            /\ pc' = "regularize"
    /\ UNCHANGED NotOffDef
    /\ UNCHANGED <<Inputs, Locals>>

\* line 126
Regularize ==
    /\ pc = "regularize"
    /\ AtA' = AddRidge(AtA, total_vars, lam)
    /\ pc' = "solve"
    /\ UNCHANGED NotOffDef
    /\ UNCHANGED <<Inputs, teams, team_to_idx, n, total_vars, Atb, equation_count,
                   row_pos, ratings, result>>

\* line 127: np.linalg.solve raises LinAlgError on a singular matrix
Solve ==
    /\ pc = "solve"
    /\ IF Singular(AtA, total_vars)
       THEN /\ result' = Raised("LinAlgError")
            /\ ratings' = ratings
            /\ pc' = "done"
       ELSE /\ ratings' = LinSolve(AtA, total_vars, Atb)
            /\ result' = result
            /\ pc' = "centre"
    /\ UNCHANGED NotOffDef
    /\ UNCHANGED <<Inputs, teams, team_to_idx, n, total_vars, AtA, Atb, equation_count,
                   row_pos>>

\* line 130
CentreRatings ==
    /\ pc = "centre"
    /\ ratings' = Centre(ratings, total_vars)
    /\ pc' = "return"
    /\ UNCHANGED NotOffDef
    /\ UNCHANGED <<Inputs, teams, team_to_idx, n, total_vars, AtA, Atb, equation_count,
                   row_pos, result>>

\* lines 132-134
Return ==
    /\ pc = "return"
    /\ result' = RatingFrame(teams, n, ratings)
    /\ pc' = "done"
    /\ UNCHANGED NotOffDef
    /\ UNCHANGED <<Inputs, Locals>>

\* no call of compute_split_sos_faced
NoSosCall ==
    /\ off_rating = <<>>
    /\ def_rating = <<>>
    /\ opp_def_rating = <<>>
    /\ opp_off_rating = <<>>
    /\ off_sum = <<>>
    /\ off_total = <<>>
    /\ def_sum = <<>>
    /\ def_total = <<>>
    /\ sos = NoSos

\* no call of compute_sos_adjusted_net_epa
NoNetCall ==
    /\ A = <<>>
    /\ b = <<>>
    /\ w = <<>>
    /\ lhs = <<>>
    /\ rhs = <<>>
    /\ net_result = NoSeries
    /\ history = <<>>

\* a call compute_sos_adjusted_off_def(team_games, lam) about to start
OffDefCall ==
    /\ \/ /\ columns = RequiredOffDef
          /\ team_games \in Tables(MaxRows)
       \/ /\ columns \in ColumnSets
          /\ \E t \in Tables(1) : team_games = Project(t, columns)
    /\ lam \in Lams
    /\ pc = "check_columns"
    /\ teams = <<>>
    /\ team_to_idx = <<>>
    /\ n = 0
    /\ total_vars = 0
    /\ AtA = <<>>
    /\ Atb = <<>>
    /\ equation_count = 0
    /\ row_pos = 0
    /\ ratings = <<>>
    /\ result = NoResult
    /\ NoSosCall
    /\ NoNetCall
    /\ ElsewhereIdle

(***************************************************************************)
(* compute_sos_adjusted_net_epa, one action per statement.                 *)
(***************************************************************************)
\* line 21: the columns compute_sos_adjusted_net_epa requires
RequiredNet == {"team", "opp", "net_epa_pp", "plays"}

NetGame(team, opp, s) == [team |-> team, opp |-> opp, net_epa_pp |-> s[1], plays |-> s[2]]

\* (net_epa_pp, plays) of the rows the model draws
NetSamples == { <<1, 2>>, <<-1, 1>>, <<0, 0>> }

NetRows ==
    {NetGame(m[1], m[2], s) :
        m \in {<<"A", "B">>, <<"B", "A">>, <<"C", "B">>}, s \in NetSamples}
        \cup {NetGame("A", "B", <<1, -1>>)}

NetTables(k) == UNION {[1..m -> NetRows] : m \in 0..k}

NetColumnSets ==
    {RequiredNet, RequiredOffDef} \cup {RequiredNet \ {c} : c \in RequiredNet}

\* np.clip(w, 0, None)
ClipWeights(wt) == [i \in DOMAIN wt |-> IF wt[i] < 0 THEN 0 ELSE wt[i]]

\* lines 45-50: Aw.T @ Aw, with sw * sw = np.clip(w, 0, None)
WeightedGram(M, wt, m, nTeams) ==
    LET RECURSIVE Entry(_, _, _)
        Entry(i, j, r) ==
            IF r = 0 THEN 0
            ELSE Entry(i, j, r - 1) + ClipWeights(wt)[r - 1] * M[r - 1][i] * M[r - 1][j]
    IN  [i \in 0..(nTeams - 1) |-> [j \in 0..(nTeams - 1) |-> Entry(i, j, m)]]

\* lines 45-51: Aw.T @ bw
WeightedMoment(M, wt, y, m, nTeams) ==
    LET RECURSIVE Entry(_, _)
        Entry(i, r) ==
            IF r = 0 THEN 0
            ELSE Entry(i, r - 1) + ClipWeights(wt)[r - 1] * M[r - 1][i] * y[r - 1]
    IN  [i \in 0..(nTeams - 1) |-> Entry(i, m)]

NetLocals == <<teams, team_to_idx, n, row_pos, ratings, A, b, w, lhs, rhs>>
NotNet == <<total_vars, AtA, Atb, equation_count, result, SosInputs, SosLocals, sos,
            history, Elsewhere>>

\* lines 21-24
NetCheckColumns ==
    /\ pc = "net_check_columns"
    /\ IF RequiredNet \ columns # {}
       THEN /\ net_result' = RaisedSeries("ValueError")
            /\ pc' = "net_done"
       ELSE /\ net_result' = net_result
            /\ pc' = "net_check_empty"
    /\ UNCHANGED <<Inputs, NetLocals, NotNet>>

\* lines 26-27
NetCheckEmpty ==
    /\ pc = "net_check_empty"
    /\ IF Len(team_games) = 0
       THEN /\ net_result' = RatingSeries(<<>>, <<>>)
            /\ pc' = "net_done"
       ELSE /\ net_result' = net_result
            /\ pc' = "net_build_index"
    /\ UNCHANGED <<Inputs, NetLocals, NotNet>>

\* lines 29-37
NetBuildIndex ==
    /\ pc = "net_build_index"
    /\ teams' = TeamUniverse(team_games)
    /\ team_to_idx' = Enumerate(teams')
    /\ n' = Len(teams')
    /\ A' = [r \in 0..(Len(team_games) - 1) |-> [j \in 0..(n' - 1) |-> 0]]
    /\ b' = [r \in 0..(Len(team_games) - 1) |-> team_games[r + 1].net_epa_pp]
    /\ w' = [r \in 0..(Len(team_games) - 1) |-> team_games[r + 1].plays]
    /\ row_pos' = 1
    /\ pc' = "net_fill"
    /\ UNCHANGED <<Inputs, ratings, lhs, rhs, net_result, NotNet>>

\* lines 39-43, one row
NetFillRow ==
    /\ pc = "net_fill"
    /\ row_pos <= Len(team_games)
    /\ LET row == team_games[row_pos]
           team_idx == team_to_idx[row.team]
           opp_idx == team_to_idx[row.opp]
       IN  A' = [[A EXCEPT ![row_pos - 1][team_idx] = 1]
                    EXCEPT ![row_pos - 1][opp_idx] = -1]
    /\ row_pos' = row_pos + 1
    /\ UNCHANGED <<Inputs, pc, teams, team_to_idx, n, ratings, b, w, lhs, rhs,
                   net_result, NotNet>>

\* lines 45-51
NetNormalEquations ==
    /\ pc = "net_fill"
    /\ row_pos > Len(team_games)
    /\ lhs' = AddRidge(WeightedGram(A, w, Len(team_games), n), n, lam)
    /\ rhs' = WeightedMoment(A, w, b, Len(team_games), n)
    /\ pc' = "net_solve"
    /\ UNCHANGED <<Inputs, teams, team_to_idx, n, row_pos, ratings, A, b, w,
                   net_result, NotNet>>

\* line 53
NetSolve ==
    /\ pc = "net_solve"
    /\ IF Singular(lhs, n)
       THEN /\ net_result' = RaisedSeries("LinAlgError")
            /\ ratings' = ratings
            /\ pc' = "net_done"
       ELSE /\ ratings' = LinSolve(lhs, n, rhs)
            /\ net_result' = net_result
            /\ pc' = "net_centre"
    /\ UNCHANGED <<Inputs, teams, team_to_idx, n, row_pos, A, b, w, lhs, rhs, NotNet>>

\* line 54
NetCentre ==
    /\ pc = "net_centre"
    /\ ratings' = Centre(ratings, n)
    /\ pc' = "net_return"
    /\ UNCHANGED <<Inputs, teams, team_to_idx, n, row_pos, A, b, w, lhs, rhs,
                   net_result, NotNet>>

\* line 56
NetReturn ==
    /\ pc = "net_return"
    /\ net_result' = RatingSeries(teams, [i \in DOMAIN teams |-> ratings[i - 1]])
    /\ pc' = "net_done"
    /\ UNCHANGED <<Inputs, NetLocals, NotNet>>

\* a call compute_sos_adjusted_net_epa(team_games, lam) about to start
NetCall ==
    /\ \/ /\ columns = RequiredNet
          /\ team_games \in NetTables(MaxRows)
       \/ /\ columns \in NetColumnSets
          /\ \E t \in NetTables(1) : team_games = Project(t, columns)
    /\ lam \in Lams
    /\ pc = "net_check_columns"
    /\ teams = <<>>
    /\ team_to_idx = <<>>
    /\ n = 0
    /\ total_vars = 0
    /\ AtA = <<>>
    /\ Atb = <<>>
    /\ equation_count = 0
    /\ row_pos = 0
    /\ ratings = <<>>
    /\ result = NoResult
    /\ NoSosCall
    /\ NoNetCall
    /\ ElsewhereIdle

\* one call of either estimator
Init == OffDefCall \/ NetCall

Next ==
    \/ CheckColumns
    \/ CheckEmpty
    \/ BuildIndex
    \/ AccumulateRow
    \/ CheckEquations
    \/ Regularize
    \/ Solve
    \/ CentreRatings
    \/ Return
    \/ NetCheckColumns
    \/ NetCheckEmpty
    \/ NetBuildIndex
    \/ NetFillRow
    \/ NetNormalEquations
    \/ NetSolve
    \/ NetCentre
    \/ NetReturn

Spec == Init /\ [][Next]_vars

(***************************************************************************)
(* A caller that rates one table after another.  The locals of a call stay *)
(* in memory until the next call assigns them.                             *)
(***************************************************************************)
CallTables ==
    { <<>>,
      <<Game("A", "B", <<1, 2, 1, 1>>)>>,
      <<Game("A", "B", <<1, 2, 1, 1>>), Game("B", "A", <<-1, 1, -1, 2>>)>>,
      <<Game("B", "A", <<-1, 1, -1, 2>>), Game("A", "B", <<1, 2, 1, 1>>)>>,
      <<Game("C", "B", <<1, 2, 1, 1>>), Game("B", "A", <<-1, 1, -1, 2>>)>>,
      <<Game("A", "B", <<0, 0, 0, 0>>)>> }

CallLams == {1, 2}

InitCalls ==
    /\ OffDefCall
    /\ team_games \in CallTables
    /\ lam \in CallLams

\* the call has ended; the caller records what it got and calls again
NextCall ==
    /\ pc = "done"
    /\ Len(history) < MaxCalls - 1
    /\ history' = Append(history, [team_games |-> team_games, lam |-> lam,
                                   result |-> result])
    /\ team_games' \in CallTables
    /\ lam' \in CallLams
    /\ result' = NoResult
    /\ pc' = "check_columns"
    /\ UNCHANGED <<columns, Locals, SosInputs, SosLocals, sos, A, b, w, lhs, rhs,
                   net_result, Elsewhere>>

NextCalls ==
    \/ CheckColumns
    \/ CheckEmpty
    \/ BuildIndex
    \/ AccumulateRow
    \/ CheckEquations
    \/ Regularize
    \/ Solve
    \/ CentreRatings
    \/ Return
    \/ NextCall

SpecCalls == InitCalls /\ [][NextCalls]_vars

(***************************************************************************)
(* compute_split_sos_faced.  A float is a rational; <<0, 0>> is NaN and    *)
(* <<1, 0>>, <<-1, 0>> are the infinities a division by zero gives.        *)
(***************************************************************************)
RNaN == <<0, 0>>
IsRNaN(r) == r = RNaN

\* Series.map(ratings): the rating of the key, NaN for a key the index lacks
MapRating(series, key) == IF key \in DOMAIN series THEN series[key] ELSE RNaN

\* a mapping keyed by the row's own team instead of its opponent
OppDefRatingColumn_OwnTeam(t, offs, defs) == [i \in DOMAIN t |-> MapRating(defs, t[i].team)]

\* a mapping that looks the opponent up on the offense axis
OppDefRatingColumn_SameAxis(t, offs, defs) == [i \in DOMAIN t |-> MapRating(offs, t[i].opp)]

\* line 173: games["opp"].map(def_rating)
OppDefRatingColumn(t, offs, defs) == [i \in DOMAIN t |-> MapRating(defs, t[i].opp)]
\* line 174: games["opp"].map(off_rating)
OppOffRatingColumn(t, offs, defs) == [i \in DOMAIN t |-> MapRating(offs, t[i].opp)]

\* Series.clip(lower=0): NaN stays NaN
ClipLower0(x) == IF x = NaN THEN NaN ELSE IF x < 0 THEN 0 ELSE x

\* lines 177 and 182: rating * weight, NaN when either is NaN
TimesWeight(r, weight) ==
    IF IsRNaN(r) \/ weight = NaN THEN RNaN ELSE RMul(r, <<weight, 1>>)

\* groupby("team"): the group keys
GroupKeys(t) == {t[i].team : i \in DOMAIN t}

\* groupby("team")[col].sum() for one key: NaN entries are skipped
RECURSIVE GroupSumFloat(_, _, _, _)
GroupSumFloat(t, col, key, k) ==
    IF k = 0 THEN Zero
    ELSE IF t[k].team = key /\ ~IsRNaN(col[k])
         THEN RAdd(GroupSumFloat(t, col, key, k - 1), col[k])
         ELSE GroupSumFloat(t, col, key, k - 1)

RECURSIVE GroupSumWeight(_, _, _, _)
GroupSumWeight(t, wcol, key, k) ==
    IF k = 0 THEN 0
    ELSE IF t[k].team = key /\ wcol[k] # NaN
         THEN GroupSumWeight(t, wcol, key, k - 1) + wcol[k]
         ELSE GroupSumWeight(t, wcol, key, k - 1)

\* offense weights that are missing on the rows of an unrated opponent
OffWeights_RatedOnly(t) ==
    [i \in DOMAIN t |-> IF t[i].opp \in DOMAIN def_rating
                        THEN ClipLower0(t[i].off_plays) ELSE NaN]

\* lines 176 and 181: the clipped weight column
OffWeights(t) == [i \in DOMAIN t |-> ClipLower0(t[i].off_plays)]
DefWeights(t) == [i \in DOMAIN t |-> ClipLower0(t[i].def_plays)]

\* float division: 0/0 is NaN, x/0 an infinity
FloatDiv(x, d) ==
    IF d = 0 THEN (IF x[1] = 0 THEN RNaN ELSE IF x[1] > 0 THEN <<1, 0>> ELSE <<-1, 0>>)
    ELSE RDivInt(x, d)

\* a fillna that leaves NaN in place
Fillna0_Missing(x) == x

\* Series.fillna(0.0)
Fillna0(x) == IF IsRNaN(x) THEN Zero ELSE x

\* lines 143-155: compute_sos_faced(team_games, ratings), the legacy
\* single-rating calculator; rows whose opponent has no rating are dropped
\* before both sums, and the result is indexed by the rated teams
compute_sos_faced(games, rating) ==
    IF Len(games) = 0 \/ DOMAIN rating = {}
    THEN <<>>
    ELSE LET rated == SelectSeq(games, LAMBDA row : ~IsRNaN(MapRating(rating, row.opp)))
             weighted_opp == [i \in DOMAIN rated |->
                                 TimesWeight(MapRating(rating, rated[i].opp), rated[i].plays)]
             plays == [i \in DOMAIN rated |-> rated[i].plays]
         IN  [x \in DOMAIN rating |->
                 Fillna0(IF x \in GroupKeys(rated)
                         THEN FloatDiv(GroupSumFloat(rated, weighted_opp, x, Len(rated)),
                                       GroupSumWeight(rated, plays, x, Len(rated)))
                         ELSE RNaN)]

\* a result over the group keys only: no reindex to the team universe
SosSeries_GroupKeysOnly(sum, total, all_teams) ==
    LET keys == SelectSeq(all_teams, LAMBDA x : x \in DOMAIN sum)
    IN  [i \in DOMAIN keys |-> Fillna0(FloatDiv(sum[keys[i]], total[keys[i]]))]

\* lines 187 and 189: (sum / total).reindex(all_teams).fillna(0.0)
SosSeries(sum, total, all_teams) ==
    [i \in DOMAIN all_teams |->
        Fillna0(IF all_teams[i] \in DOMAIN sum
                THEN FloatDiv(sum[all_teams[i]], total[all_teams[i]])
                ELSE RNaN)]

SeriesPair(ix, so, sd) == [kind |-> "SeriesPair", index |-> ix, sos_off |-> so, sos_def |-> sd]

OffDefState == <<columns, lam, teams, team_to_idx, n, total_vars, AtA, Atb,
                 equation_count, row_pos, ratings, result,
                 A, b, w, lhs, rhs, net_result, history, Elsewhere>>

\* lines 168-170
SosCheckEmpty ==
    /\ pc = "sos_check_empty"
    /\ IF Len(team_games) = 0
       THEN /\ sos' = SeriesPair(<<>>, <<>>, <<>>)
            /\ pc' = "sos_done"
       ELSE /\ sos' = sos
            /\ pc' = "sos_map"
    /\ UNCHANGED <<team_games, OffDefState, SosInputs, SosLocals>>

\* lines 172-174
SosMapRatings ==
    /\ pc = "sos_map"
    /\ opp_def_rating' = OppDefRatingColumn(team_games, off_rating, def_rating)
    /\ opp_off_rating' = OppOffRatingColumn(team_games, off_rating, def_rating)
    /\ pc' = "sos_offense"
    /\ UNCHANGED <<team_games, OffDefState, SosInputs, off_sum, off_total, def_sum,
                   def_total, sos>>

\* lines 176-179
SosOffense ==
    /\ pc = "sos_offense"
    /\ LET weight == OffWeights(team_games)
           weighted == [i \in DOMAIN team_games |-> TimesWeight(opp_def_rating[i], weight[i])]
       IN  /\ off_sum' = [k \in GroupKeys(team_games) |->
                             GroupSumFloat(team_games, weighted, k, Len(team_games))]
           /\ off_total' = [k \in GroupKeys(team_games) |->
                               GroupSumWeight(team_games, weight, k, Len(team_games))]
    /\ pc' = "sos_defense"
    /\ UNCHANGED <<team_games, OffDefState, SosInputs, opp_def_rating, opp_off_rating,
                   def_sum, def_total, sos>>

\* lines 181-184
SosDefense ==
    /\ pc = "sos_defense"
    /\ LET weight == DefWeights(team_games)
           weighted == [i \in DOMAIN team_games |-> TimesWeight(opp_off_rating[i], weight[i])]
       IN  /\ def_sum' = [k \in GroupKeys(team_games) |->
                             GroupSumFloat(team_games, weighted, k, Len(team_games))]
           /\ def_total' = [k \in GroupKeys(team_games) |->
                               GroupSumWeight(team_games, weight, k, Len(team_games))]
    /\ pc' = "sos_return"
    /\ UNCHANGED <<team_games, OffDefState, SosInputs, opp_def_rating, opp_off_rating,
                   off_sum, off_total, sos>>

\* lines 186-192
SosReturn ==
    /\ pc = "sos_return"
    /\ LET all_teams == TeamUniverse(team_games)
       IN  sos' = SeriesPair(all_teams, SosSeries(off_sum, off_total, all_teams),
                             SosSeries(def_sum, def_total, all_teams))
    /\ pc' = "sos_done"
    /\ UNCHANGED <<team_games, OffDefState, SosInputs, SosLocals>>

\* the play counts (off_plays, def_plays) of the rows passed to the calculator
SosSamples == { <<2, 1>>, <<1, 3>>, <<0, 0>>, <<0, 2>>, <<NaN, 1>>, <<-1, 2>> }

SosRows ==
    {Game(m[1], m[2], <<1, s[1], -1, s[2]>>) :
        m \in {<<"A", "B">>, <<"B", "A">>, <<"B", "C">>}, s \in SosSamples}

SosTables(k) == UNION {[1..m -> SosRows] : m \in 0..k}

\* the rating vectors passed in: a full pair, restricted to every set of teams
FullOffRating == [x \in AllTeams |->
    IF x = "A" THEN <<1, 2>> ELSE IF x = "B" THEN <<-1, 1>> ELSE <<1, 1>>]
FullDefRating == [x \in AllTeams |->
    IF x = "A" THEN <<-1, 2>> ELSE IF x = "B" THEN <<2, 1>> ELSE <<-1, 2>>]
Restrict(f, S) == [x \in S |-> f[x]]

\* a call compute_split_sos_faced(team_games, off_rating, def_rating) about to start
InitSos ==
    /\ columns = RequiredOffDef
    /\ team_games \in SosTables(MaxRows)
    /\ \E S \in SUBSET AllTeams :
          /\ off_rating = Restrict(FullOffRating, S)
          /\ def_rating = Restrict(FullDefRating, S)
    /\ pc = "sos_check_empty"
    /\ lam = 0
    /\ teams = <<>>
    /\ team_to_idx = <<>>
    /\ n = 0
    /\ total_vars = 0
    /\ AtA = <<>>
    /\ Atb = <<>>
    /\ equation_count = 0
    /\ row_pos = 0
    /\ ratings = <<>>
    /\ result = NoResult
    /\ NoNetCall
    /\ ElsewhereIdle
    /\ opp_def_rating = <<>>
    /\ opp_off_rating = <<>>
    /\ off_sum = <<>>
    /\ off_total = <<>>
    /\ def_sum = <<>>
    /\ def_total = <<>>
    /\ sos = NoSos

NextSos ==
    \/ SosCheckEmpty
    \/ SosMapRatings
    \/ SosOffense
    \/ SosDefense
    \/ SosReturn

SpecSos == InitSos /\ [][NextSos]_vars

(***************************************************************************)
(* A caller that rates a table and passes the ratings on to                *)
(* compute_split_sos_faced together with the same table.                   *)
(***************************************************************************)
\* the row of the same game seen from the other side: the mirrored values
Negated(s) == <<-s[1], s[2], -s[3], s[4]>>

\* one game between A and B: A's row and B's row with the mirrored values
MirroredPair(a, d, p) ==
    <<Game("A", "B", <<a, p, d, p>>), Game("B", "A", <<-a, p, -d, p>>)>>

\* A meets only B, C meets only B, B meets both; the better team's row first
Chain(a1, d1, a2, d2, p) ==
    <<Game("A", "B", <<a1, p, d1, p>>), Game("B", "A", <<-a1, p, -d1, p>>),
      Game("B", "C", <<a2, p, d2, p>>), Game("C", "B", <<-a2, p, -d2, p>>)>>

\* A and B meet twice; the second game's rows cancel the first game's
Offsetting(s, u) ==
    <<Game("A", "B", s), Game("B", "A", u),
      Game("A", "B", Negated(s)), Game("B", "A", Negated(u))>>

\* the efficiency values and play counts the season tables are drawn from
Margins == {1, 2, 6}
PlayCounts == {1, 3}
OffsetSamples == { <<2, 3, 1, 3>>, <<-2, 3, -1, 3>>, <<1, 2, -1, 1>>, <<6, 1, 0, 2>> }

SeasonTables ==
    {MirroredPair(a, d, p) : a \in {1, 2}, d \in {1, 2}, p \in PlayCounts \cup {60}}
        \cup {Chain(m[1], m[2], m[3], m[4], p) :
                 m \in Margins \X Margins \X Margins \X Margins, p \in PlayCounts}
        \cup {Offsetting(s, u) : s \in OffsetSamples, u \in OffsetSamples}

SeasonLams == {1, 2}

\* ratings["off_rating"], ratings["def_rating"]: a Series indexed by team
RatingColumn(frame, col) ==
    [x \in {frame.index[i] : i \in DOMAIN frame.index} |->
        frame[col][CHOOSE i \in DOMAIN frame.index : frame.index[i] = x]]

\* compute_split_sos_faced(games, ratings["off_rating"], ratings["def_rating"])
FeedRatings ==
    /\ pc = "done"
    /\ result.kind = "DataFrame"
    /\ off_rating' = RatingColumn(result, "off_rating")
    /\ def_rating' = RatingColumn(result, "def_rating")
    /\ pc' = "sos_check_empty"
    /\ UNCHANGED <<team_games, OffDefState, SosLocals, sos>>

InitSeason ==
    /\ columns = RequiredOffDef
    /\ team_games \in SeasonTables
    /\ lam \in SeasonLams
    /\ pc = "check_columns"
    /\ teams = <<>>
    /\ team_to_idx = <<>>
    /\ n = 0
    /\ total_vars = 0
    /\ AtA = <<>>
    /\ Atb = <<>>
    /\ equation_count = 0
    /\ row_pos = 0
    /\ ratings = <<>>
    /\ result = NoResult
    /\ NoSosCall
    /\ NoNetCall
    /\ ElsewhereIdle

NextSeason ==
    \/ CheckColumns
    \/ CheckEmpty
    \/ BuildIndex
    \/ AccumulateRow
    \/ CheckEquations
    \/ Regularize
    \/ Solve
    \/ CentreRatings
    \/ Return
    \/ FeedRatings
    \/ SosCheckEmpty
    \/ SosMapRatings
    \/ SosOffense
    \/ SosDefense
    \/ SosReturn

SpecSeason == InitSeason /\ [][NextSeason]_vars

(***************************************************************************)
(* scripts/records.py: compute_records, one action per statement.  A cell  *)
(* of a score column is a number, NaN, or text that may read as a number.  *)
(***************************************************************************)
\* the most rows a table passed to compute_records has
MaxGameRows == 3

\* the variables of scripts/sos_adjustment.py but pc
SosAdjustmentVars == <<columns, team_games, lam, Locals, result, SosInputs, SosLocals,
                       sos, A, b, w, lhs, rhs, net_result, history>>

Num(x) == <<"num", x>>
Missing == <<"nan", 0>>
Text(x) == <<"str", x>>
Junk == <<"junk", 0>>

\* pd.to_numeric(cell, errors="coerce")
to_numeric(c) == IF c[1] \in {"num", "str"} THEN c[2] ELSE NaN

\* pd.isna
isna(x) == x = NaN

\* a test that only knows NaN as a missing score, not the negative sentinel
ScoreMissing_NaNOnly(pf, pa) == isna(pf) \/ isna(pa)

\* line 26
ScoreMissing(pf, pa) == isna(pf) \/ isna(pa) \/ pf < 0 \/ pa < 0

\* (points_for, points_against) of the rows the model draws
ScoreSamples ==
    { <<Num(10), Num(7)>>, <<Num(7), Num(10)>>, <<Num(3), Num(3)>>,
      <<Num(-1), Num(-1)>>, <<Missing, Num(7)>>, <<Num(3), Num(-1)>>,
      <<Text(7), Num(0)>>, <<Num(0), Junk>> }
FewScoreSamples ==
    { <<Num(7), Num(10)>>, <<Num(3), Num(3)>>, <<Num(-1), Num(-1)>>, <<Num(14), Missing>> }

ScoreRow(team, sc) == [team |-> team, points_for |-> sc[1], points_against |-> sc[2]]

ScoreRows ==
    {ScoreRow("AAA", sc) : sc \in ScoreSamples}
        \cup {ScoreRow("BBB", sc) : sc \in FewScoreSamples}

RecordColumns == {"team", "points_for", "points_against"}

\* pd.DataFrame(rows) with the given columns
ScoreFrame(cols, rows) ==
    [kind |-> "DataFrame", columns |-> cols, rows |-> Project(rows, cols)]

ScoreFrames(k) ==
    {ScoreFrame(RecordColumns, rows) : rows \in UNION {[1..m -> ScoreRows] : m \in 0..k}}
        \cup {ScoreFrame(RecordColumns \ {c}, <<r>>) : c \in RecordColumns, r \in ScoreRows}

\* sorted(set(game_rows["team"])): the group keys in the order groupby yields
RecordTeamOrder == <<"AAA", "BBB">>
GroupOrder(rows) ==
    SelectSeq(RecordTeamOrder, LAMBDA x : \E i \in DOMAIN rows : rows[i].team = x)

\* the rows of one group, in table order
GroupRows(rows, key) == SelectSeq(rows, LAMBDA r : r.team = key)

\* f"{wins}-{losses}-{ties}" if ties else f"{wins}-{losses}"
RecordString(wn, ls, ts) == IF ts # 0 THEN <<wn, ls, ts>> ELSE <<wn, ls>>

\* line 37: (wins + 0.5 * ties) / counted
WinPct(wn, ts, cnt) == Frac(2 * wn + ts, 2 * cnt)

RecordsLocals == <<records, groups, group_pos, group, group_row, wins, losses, ties, counted>>

\* lines 14-17
RecCheckInput ==
    /\ pc = "rec_check_input"
    /\ IF \/ game_rows.kind = "None"
          \/ Len(game_rows.rows) = 0
          \/ ~({"points_for", "points_against"} \subseteq game_rows.columns)
       THEN /\ records_result' = [kind |-> "dict", value |-> <<>>]
            /\ pc' = "rec_done"
       ELSE /\ records_result' = records_result
            /\ pc' = "rec_groupby"
    /\ UNCHANGED <<game_rows, RecordsLocals, SosAdjustmentVars, FetcherVars, DbVars, ModesVars, StoreVars>>

\* lines 19-20: groupby("team") raises KeyError without the column
RecGroupBy ==
    /\ pc = "rec_groupby"
    /\ records' = <<>>
    /\ IF "team" \notin game_rows.columns
       THEN /\ records_result' = [kind |-> "KeyError", value |-> <<>>]
            /\ groups' = groups
            /\ pc' = "rec_done"
       ELSE /\ records_result' = records_result
            /\ groups' = GroupOrder(game_rows.rows)
            /\ pc' = "rec_next_group"
    /\ group_pos' = 1
    /\ UNCHANGED <<game_rows, group, group_row, wins, losses, ties, counted,
                   SosAdjustmentVars, FetcherVars, DbVars, ModesVars, StoreVars>>

\* lines 20-22: the next group, its counters at zero
RecStartGroup ==
    /\ pc = "rec_next_group"
    /\ group_pos <= Len(groups)
    /\ group' = GroupRows(game_rows.rows, groups[group_pos])
    /\ group_row' = 1
    /\ wins' = 0
    /\ losses' = 0
    /\ ties' = 0
    /\ counted' = 0
    /\ pc' = "rec_rows"
    /\ UNCHANGED <<game_rows, records, groups, group_pos, records_result, SosAdjustmentVars,
                   FetcherVars, DbVars, ModesVars, StoreVars>>

\* lines 23-34, one row
RecRow ==
    /\ pc = "rec_rows"
    /\ group_row <= Len(group)
    /\ LET pf == to_numeric(group[group_row].points_for)
           pa == to_numeric(group[group_row].points_against)
       IN  IF ScoreMissing(pf, pa)
           THEN UNCHANGED <<wins, losses, ties, counted>>
           ELSE /\ counted' = counted + 1
                /\ wins' = IF pf > pa THEN wins + 1 ELSE wins
                /\ losses' = IF ~(pf > pa) /\ pf < pa THEN losses + 1 ELSE losses
                /\ ties' = IF ~(pf > pa) /\ ~(pf < pa) THEN ties + 1 ELSE ties
    /\ group_row' = group_row + 1
    /\ UNCHANGED <<game_rows, records, groups, group_pos, group, pc, records_result,
                   SosAdjustmentVars, FetcherVars, DbVars, ModesVars, StoreVars>>

\* lines 35-44
RecFinishGroup ==
    /\ pc = "rec_rows"
    /\ group_row > Len(group)
    /\ records' =
          IF counted # 0
          THEN (groups[group_pos] :> [wins |-> wins, losses |-> losses, ties |-> ties,
                                      record |-> RecordString(wins, losses, ties),
                                      win_pct |-> WinPct(wins, ties, counted)])
                  @@ records
          ELSE records
    /\ group_pos' = group_pos + 1
    /\ pc' = "rec_next_group"
    /\ UNCHANGED <<game_rows, groups, group, group_row, wins, losses, ties, counted,
                   records_result, SosAdjustmentVars,
                   FetcherVars, DbVars, ModesVars, StoreVars>>

\* line 45
RecReturn ==
    /\ pc = "rec_next_group"
    /\ group_pos > Len(groups)
    /\ records_result' = [kind |-> "dict", value |-> records]
    /\ pc' = "rec_done"
    /\ UNCHANGED <<game_rows, RecordsLocals, SosAdjustmentVars, FetcherVars, DbVars, ModesVars, StoreVars>>

\* a call compute_records(game_rows) about to start
InitRecords ==
    /\ game_rows \in ScoreFrames(MaxGameRows) \cup {NoTable}
    /\ pc = "rec_check_input"
    /\ records = <<>>
    /\ groups = <<>>
    /\ group_pos = 0
    /\ group = <<>>
    /\ group_row = 0
    /\ wins = 0
    /\ losses = 0
    /\ ties = 0
    /\ counted = 0
    /\ records_result = NoRecords
    /\ columns = {}
    /\ team_games = <<>>
    /\ lam = 0
    /\ teams = <<>>
    /\ team_to_idx = <<>>
    /\ n = 0
    /\ total_vars = 0
    /\ AtA = <<>>
    /\ Atb = <<>>
    /\ equation_count = 0
    /\ row_pos = 0
    /\ ratings = <<>>
    /\ result = NoResult
    /\ NoSosCall
    /\ NoNetCall
    /\ NoFetcherCall
    /\ NoDbCall
    /\ NoModesCall
    /\ NoStoreCall

NextRecords ==
    \/ RecCheckInput
    \/ RecGroupBy
    \/ RecStartGroup
    \/ RecRow
    \/ RecFinishGroup
    \/ RecReturn

SpecRecords == InitRecords /\ [][NextRecords]_vars

(***************************************************************************)
(* scripts/epa_od_fetcher.py: compute_team_game_epa, one action per        *)
(* statement group.  Tables built by groupby and merge are sets of rows.   *)
(***************************************************************************)
\* the most plays a play-by-play table has
MaxPlays == 3

\* a missing text cell (None / NaN in an object column)
NA == "<NA>"

\* astype(str).str.upper()
Upper(x) == IF x = "aaa" THEN "AAA" ELSE IF x = NA THEN "NAN" ELSE x

\* line 189
sentinel_points == -1

Play(g, pos, dfn, epa, home, away, th, ta, hs, as) ==
    [game_id |-> g, posteam |-> pos, defteam |-> dfn, epa |-> epa,
     home_team |-> home, away_team |-> away,
     total_home_score |-> th, total_away_score |-> ta,
     home_score |-> hs, away_score |-> as]

\* game g1: AAA at home to BBB, final score 21-10; game g2: BBB at home to AAA
Plays ==
    { Play("g1", "AAA", "BBB", Num(1), "AAA", "BBB", Num(7), Num(3), Num(21), Num(10)),
      Play("g1", "BBB", "AAA", Num(-2), "AAA", "BBB", Num(14), Num(10), Num(21), Num(10)),
      Play("g1", "AAA", "BBB", Missing, "AAA", "BBB", Num(21), Num(10), Num(21), Num(10)),
      Play("g1", "BBB", "AAA", Num(1), "aaa", NA, Missing, Missing, Missing, Junk),
      Play("g1", "AAA", "BBB", Num(2), "AAA", "BBB", Num(0), Num(0), Num(0), Num(0)),
      Play("g1", NA, NA, Missing, "AAA", "BBB", Num(14), Num(10), Num(21), Num(10)),
      Play("g1", "BBB", "AAA", Junk, "AAA", "BBB", Text(17), Num(10), Num(21), Num(10)),
      Play("g1", "CCC", "AAA", Num(1), "AAA", "BBB", Num(7), Num(3), Num(21), Num(10)),
      Play("g2", "AAA", "BBB", Num(1), "BBB", "AAA", Num(28), Num(0), Num(28), Num(35)),
      Play("g2", "BBB", "AAA", Text(3), "BBB", "AAA", Num(28), Num(35), Num(28), Num(35)) }

\* line 150
RequiredPbp == {"game_id", "posteam", "defteam", "epa"}
TeamColumns == {"home_team", "away_team"}
RunningScoreColumns == {"total_home_score", "total_away_score"}
FinalScoreColumns == {"home_score", "away_score"}

PbpColumnSets ==
    { RequiredPbp,
      RequiredPbp \cup TeamColumns \cup RunningScoreColumns,
      RequiredPbp \cup TeamColumns \cup FinalScoreColumns,
      RequiredPbp \cup TeamColumns \cup RunningScoreColumns \cup FinalScoreColumns,
      RequiredPbp \cup RunningScoreColumns,
      RequiredPbp \ {"epa"} }

Weeks == {2}

\* lines 155-157: epa read as a number, rows with a missing key cell dropped
CleanPlays(rows) ==
    SelectSeq([i \in DOMAIN rows |-> [rows[i] EXCEPT !.epa = to_numeric(@)]],
              LAMBDA r : /\ ~isna(r.epa)
                         /\ r.posteam # NA /\ r.defteam # NA /\ r.game_id # NA)

\* the keys of groupby(["game_id", "posteam", "defteam"])
PlayKeys(d) == {<<d[i].game_id, d[i].posteam, d[i].defteam>> : i \in DOMAIN d}

InGroup(r, key) == r.game_id = key[1] /\ r.posteam = key[2] /\ r.defteam = key[3]

\* agg("sum") and agg("count") of epa over one group
RECURSIVE EpaSum(_, _, _)
EpaSum(d, key, k) ==
    IF k = 0 THEN 0
    ELSE EpaSum(d, key, k - 1) + (IF InGroup(d[k], key) THEN d[k].epa ELSE 0)
EpaCount(d, key) == Cardinality({i \in DOMAIN d : InGroup(d[i], key)})

\* lines 166-171
OffenseFrame(d) ==
    {[game_id |-> key[1], team |-> key[2], opp |-> key[3],
      off_epa_sum |-> EpaSum(d, key, Len(d)), off_plays |-> EpaCount(d, key)] :
        key \in PlayKeys(d)}

\* the defensive perspective with the sign of the sum kept
DefenseFrame_SignKept(d) ==
    {[game_id |-> key[1], team |-> key[3], opp |-> key[2],
      def_epa_sum |-> EpaSum(d, key, Len(d)), def_plays |-> EpaCount(d, key)] :
        key \in PlayKeys(d)}

\* lines 174-180
DefenseFrame(d) ==
    {[game_id |-> key[1], team |-> key[3], opp |-> key[2],
      def_epa_sum |-> -EpaSum(d, key, Len(d)), def_plays |-> EpaCount(d, key)] :
        key \in PlayKeys(d)}

MergeKey(r) == <<r.game_id, r.team, r.opp>>

\* lines 182-187: the outer merge, NaN filled with 0, names in upper case
MergeOuter(o, d) ==
    {LET ro == {x \in o : MergeKey(x) = key}
         rd == {x \in d : MergeKey(x) = key}
     IN  [game_id |-> key[1], team |-> Upper(key[2]), opp |-> Upper(key[3]),
          off_epa_sum |-> IF ro = {} THEN 0 ELSE (CHOOSE x \in ro : TRUE).off_epa_sum,
          off_plays |-> IF ro = {} THEN 0 ELSE (CHOOSE x \in ro : TRUE).off_plays,
          def_epa_sum |-> IF rd = {} THEN 0 ELSE (CHOOSE x \in rd : TRUE).def_epa_sum,
          def_plays |-> IF rd = {} THEN 0 ELSE (CHOOSE x \in rd : TRUE).def_plays] :
        key \in {MergeKey(x) : x \in o} \cup {MergeKey(x) : x \in d}}

\* agg("first"): the first non-missing cell of the game's rows
FirstText(d, g, col) ==
    LET I == {i \in DOMAIN d : d[i].game_id = g /\ d[i][col] # NA}
    IN  IF I = {} THEN NA ELSE d[CHOOSE i \in I : \A j \in I : i <= j][col]

\* agg("max") of the numeric reading: NaN cells are skipped
MaxScore(d, g, col) ==
    LET S == {to_numeric(d[i][col]) : i \in {j \in DOMAIN d : d[j].game_id = g}} \ {NaN}
    IN  IF S = {} THEN NaN ELSE CHOOSE m \in S : \A x \in S : x <= m

\* lines 191-206: one row per game
FinalScores(d, hcol, acol) ==
    [g \in {d[i].game_id : i \in DOMAIN d} |->
        [home_team |-> Upper(FirstText(d, g, "home_team")),
         away_team |-> Upper(FirstText(d, g, "away_team")),
         home_points |-> MaxScore(d, g, hcol),
         away_points |-> MaxScore(d, g, acol)]]

\* Series.fillna(sentinel_points)
FillSentinel(x) == IF isna(x) THEN sentinel_points ELSE x

\* lines 207-219: np.select takes the first condition that holds
WithScores(r, fs) ==
    LET home_points == FillSentinel(fs.home_points)
        away_points == FillSentinel(fs.away_points)
    IN  [game_id |-> r.game_id, team |-> r.team, opp |-> r.opp,
         off_epa_sum |-> r.off_epa_sum, off_plays |-> r.off_plays,
         def_epa_sum |-> r.def_epa_sum, def_plays |-> r.def_plays,
         points_for |-> IF r.team = fs.home_team THEN home_points
                        ELSE IF r.team = fs.away_team THEN away_points
                        ELSE sentinel_points,
         points_against |-> IF r.team = fs.home_team THEN away_points
                            ELSE IF r.team = fs.away_team THEN home_points
                            ELSE sentinel_points]

\* lines 221-222
WithoutScores(r) ==
    [game_id |-> r.game_id, team |-> r.team, opp |-> r.opp,
     off_epa_sum |-> r.off_epa_sum, off_plays |-> r.off_plays,
     def_epa_sum |-> r.def_epa_sum, def_plays |-> r.def_plays,
     points_for |-> sentinel_points, points_against |-> sentinel_points]

\* lines 226-254: the derived columns of a returned row
TeamGameRow(r, wk) ==
    [game_id |-> r.game_id, week |-> wk, team |-> r.team, opp |-> r.opp,
     off_epa_sum |-> r.off_epa_sum, off_plays |-> r.off_plays,
     off_epa_pp |-> Frac(r.off_epa_sum, r.off_plays),
     def_epa_sum |-> r.def_epa_sum, def_plays |-> r.def_plays,
     def_epa_pp |-> Frac(r.def_epa_sum, r.def_plays),
     points_for |-> FillSentinel(r.points_for),
     points_against |-> FillSentinel(r.points_against),
     net_epa_sum |-> r.off_epa_sum + r.def_epa_sum,
     plays |-> r.off_plays + r.def_plays,
     net_epa_pp |-> RAdd(Frac(r.off_epa_sum, r.off_plays),
                         Frac(r.def_epa_sum, r.def_plays))]

FetcherLocals == <<df, home_col, away_col, off, deff, merged>>
NotFetcher == <<SosAdjustmentVars, RecordsVars, DbVars, ModesVars, StoreVars>>

\* lines 150-153
FetchCheckColumns ==
    /\ pc = "fetch_check_columns"
    /\ IF RequiredPbp \ pbp.columns # {}
       THEN /\ team_game_epa' = [kind |-> "ValueError", rows |-> {}]
            /\ pc' = "fetch_done"
       ELSE /\ team_game_epa' = team_game_epa
            /\ pc' = "fetch_clean"
    /\ UNCHANGED <<pbp, week, FetcherLocals, NotFetcher>>

\* lines 155-157
FetchClean ==
    /\ pc = "fetch_clean"
    /\ df' = CleanPlays(pbp.rows)
    /\ pc' = "fetch_score_columns"
    /\ UNCHANGED <<pbp, week, home_col, away_col, off, deff, merged, team_game_epa,
                   NotFetcher>>

\* lines 159-163
FetchScoreColumns ==
    /\ pc = "fetch_score_columns"
    /\ IF (TeamColumns \cup RunningScoreColumns) \subseteq pbp.columns
       THEN home_col' = "total_home_score" /\ away_col' = "total_away_score"
       ELSE IF (TeamColumns \cup FinalScoreColumns) \subseteq pbp.columns
       THEN home_col' = "home_score" /\ away_col' = "away_score"
       ELSE home_col' = "None" /\ away_col' = "None"
    /\ pc' = "fetch_offense"
    /\ UNCHANGED <<pbp, week, df, off, deff, merged, team_game_epa, NotFetcher>>

\* lines 166-171
FetchOffense ==
    /\ pc = "fetch_offense"
    /\ off' = OffenseFrame(df)
    /\ pc' = "fetch_defense"
    /\ UNCHANGED <<pbp, week, df, home_col, away_col, deff, merged, team_game_epa,
                   NotFetcher>>

\* lines 174-180
FetchDefense ==
    /\ pc = "fetch_defense"
    /\ deff' = DefenseFrame(df)
    /\ pc' = "fetch_merge"
    /\ UNCHANGED <<pbp, week, df, home_col, away_col, off, merged, team_game_epa,
                   NotFetcher>>

\* lines 182-187
FetchMerge ==
    /\ pc = "fetch_merge"
    /\ merged' = MergeOuter(off, deff)
    /\ pc' = "fetch_scores"
    /\ UNCHANGED <<pbp, week, df, home_col, away_col, off, deff, team_game_epa,
                   NotFetcher>>

\* lines 189-222
FetchScores ==
    /\ pc = "fetch_scores"
    /\ IF home_col # "None" /\ away_col # "None" /\ TeamColumns \subseteq pbp.columns
       THEN LET final_scores == FinalScores(df, home_col, away_col)
            IN  merged' = {WithScores(r, final_scores[r.game_id]) : r \in merged}
       ELSE merged' = {WithoutScores(r) : r \in merged}
    /\ pc' = "fetch_derive"
    /\ UNCHANGED <<pbp, week, df, home_col, away_col, off, deff, team_game_epa,
                   NotFetcher>>

\* lines 224-234
FetchDerive ==
    /\ pc = "fetch_derive"
    /\ merged' = {TeamGameRow(r, week) : r \in {x \in merged : x.off_plays > 0 /\ x.def_plays > 0}}
    /\ pc' = "fetch_return"
    /\ UNCHANGED <<pbp, week, df, home_col, away_col, off, deff, team_game_epa,
                   NotFetcher>>

\* lines 236-254
FetchReturn ==
    /\ pc = "fetch_return"
    /\ team_game_epa' = [kind |-> "DataFrame", rows |-> merged]
    /\ pc' = "fetch_done"
    /\ UNCHANGED <<pbp, week, FetcherLocals, NotFetcher>>

\* every play-by-play table of at most k plays, under each set of columns
PbpFrames(k) ==
    {[kind |-> "DataFrame", columns |-> cols, rows |-> Project(rows, cols)] :
        cols \in PbpColumnSets, rows \in UNION {[1..m -> Plays] : m \in 0..k}}

\* a call compute_team_game_epa(pbp, week) about to start
InitFetcher ==
    /\ pbp \in PbpFrames(MaxPlays)
    /\ week \in Weeks
    /\ pc = "fetch_check_columns"
    /\ df = <<>>
    /\ home_col = "None"
    /\ away_col = "None"
    /\ off = {}
    /\ deff = {}
    /\ merged = {}
    /\ team_game_epa = NoTeamGames
    /\ NoRecordsCall
    /\ columns = {}
    /\ team_games = <<>>
    /\ lam = 0
    /\ teams = <<>>
    /\ team_to_idx = <<>>
    /\ n = 0
    /\ total_vars = 0
    /\ AtA = <<>>
    /\ Atb = <<>>
    /\ equation_count = 0
    /\ row_pos = 0
    /\ ratings = <<>>
    /\ result = NoResult
    /\ NoSosCall
    /\ NoNetCall
    /\ NoDbCall
    /\ NoModesCall
    /\ NoStoreCall

NextFetcher ==
    \/ FetchCheckColumns
    \/ FetchClean
    \/ FetchScoreColumns
    \/ FetchOffense
    \/ FetchDefense
    \/ FetchMerge
    \/ FetchScores
    \/ FetchDerive
    \/ FetchReturn

SpecFetcher == InitFetcher /\ [][NextFetcher]_vars

(***************************************************************************)
(* scripts/db_storage.py: init_db and _migrate_weekly_schema, one action   *)
(* per statement.  A database file is the tables it holds: whether team_epa*)
(* exists, the columns of team_epa_weekly, and the rows of team_epa_games  *)
(* (their scores; no statement of init_db reads another column).           *)
(***************************************************************************)
MaxLegacyGames == 2

\* lines 33-35: the key columns of TEAM_EPA_WEEKLY_SCHEMA
WeeklyKeyColumns == {"season", "week", "team"}

\* lines 71-79: the columns added to older databases, in order
migrations ==
    <<"off_epa_sum", "off_plays", "def_epa_sum", "def_plays",
      "EPA_off_per_play", "EPA_def_per_play", "updated_at">>

\* lines 32-45: the columns of TEAM_EPA_WEEKLY_SCHEMA
WeeklySchemaColumns == WeeklyKeyColumns \cup {migrations[i] : i \in DOMAIN migrations}

\* the scores of a row of team_epa_games
GameScores(pf, pa) == [points_for |-> pf, points_against |-> pa]

\* the scores the model draws: the legacy default, a shutout, the sentinel, a final
LegacyScoreSamples ==
    {GameScores(0, 0), GameScores(0, 7), GameScores(-1, -1), GameScores(21, 10)}

\* the database files the model opens: new ones and older ones
LegacyDatabases(k) ==
    {[team_epa |-> te, team_epa_weekly |-> tw, team_epa_games |-> tg] :
        te \in BOOLEAN,
        tw \in {[exists |-> FALSE, columns |-> {}]}
               \cup {[exists |-> TRUE, columns |-> WeeklyKeyColumns \cup cs] :
                        cs \in SUBSET {migrations[i] : i \in DOMAIN migrations}},
        tg \in {[exists |-> FALSE, rows |-> <<>>]}
               \cup {[exists |-> TRUE, rows |-> rs] :
                        rs \in UNION {[1..m -> LegacyScoreSamples] : m \in 0..k}}}

DbLocals == <<existing_columns, migration>>
NotDb == <<SosAdjustmentVars, RecordsVars, FetcherVars, ModesVars, StoreVars>>

\* lines 50-52: sqlite3.connect creates the file when it is missing
DbConnect ==
    /\ pc = "db_connect"
    /\ conn' = "open"
    /\ pc' = "db_create_team_epa"
    /\ UNCHANGED <<db_path, legacy, DbLocals, NotDb>>

\* line 53: CREATE TABLE IF NOT EXISTS team_epa
DbCreateTeamEpa ==
    /\ pc = "db_create_team_epa"
    /\ db_path' = [db_path EXCEPT !.team_epa = TRUE]
    /\ pc' = "db_create_weekly"
    /\ UNCHANGED <<legacy, conn, DbLocals, NotDb>>

\* line 54: CREATE TABLE IF NOT EXISTS team_epa_weekly
DbCreateWeekly ==
    /\ pc = "db_create_weekly"
    /\ db_path' = IF db_path.team_epa_weekly.exists
                    THEN db_path
                    ELSE [db_path EXCEPT !.team_epa_weekly =
                            [exists |-> TRUE, columns |-> WeeklySchemaColumns]]
    /\ pc' = "db_table_info"
    /\ UNCHANGED <<legacy, conn, DbLocals, NotDb>>

\* lines 56 and 69-70: PRAGMA table_info(team_epa_weekly)
DbTableInfo ==
    /\ pc = "db_table_info"
    /\ existing_columns' = db_path.team_epa_weekly.columns
    /\ migration' = 1
    /\ pc' = "db_migrate"
    /\ UNCHANGED <<db_path, legacy, conn, NotDb>>

\* lines 81-86: ALTER TABLE team_epa_weekly ADD COLUMN for a missing column
DbMigrate ==
    /\ pc = "db_migrate"
    /\ migration <= Len(migrations)
    /\ db_path' = IF migrations[migration] \notin existing_columns
                    THEN [db_path EXCEPT !.team_epa_weekly.columns =
                            @ \cup {migrations[migration]}]
                    ELSE db_path
    /\ migration' = migration + 1
    /\ UNCHANGED <<pc, legacy, conn, existing_columns, NotDb>>

\* line 57
DbReturn ==
    /\ pc = "db_migrate"
    /\ migration > Len(migrations)
    /\ conn' = "Connection"
    /\ pc' = "db_done"
    /\ UNCHANGED <<db_path, legacy, DbLocals, NotDb>>

\* a call init_db(db_path) about to start
InitDb ==
    /\ db_path \in LegacyDatabases(MaxLegacyGames)
    /\ legacy = db_path
    /\ conn = "None"
    /\ existing_columns = {}
    /\ migration = 0
    /\ pc = "db_connect"
    /\ columns = {}
    /\ team_games = <<>>
    /\ lam = 0
    /\ teams = <<>>
    /\ team_to_idx = <<>>
    /\ n = 0
    /\ total_vars = 0
    /\ AtA = <<>>
    /\ Atb = <<>>
    /\ equation_count = 0
    /\ row_pos = 0
    /\ ratings = <<>>
    /\ result = NoResult
    /\ NoSosCall
    /\ NoNetCall
    /\ NoRecordsCall
    /\ NoFetcherCall
    /\ NoModesCall
    /\ NoStoreCall

NextDb ==
    \/ DbConnect
    \/ DbCreateTeamEpa
    \/ DbCreateWeekly
    \/ DbTableInfo
    \/ DbMigrate
    \/ DbReturn

SpecDb == InitDb /\ [][NextDb]_vars

(***************************************************************************)
(* scripts/team_epa_modes.py: apply_epa_mode, one action per statement and *)
(* one per group of grouped.apply.  A value or play count is a number or   *)
(* missing; an average is a rational, RNaN when it is missing.             *)
(***************************************************************************)
MaxWeekRows == 3

\* line 11
REQUIRED_BASE_COLUMNS == {"season", "week", "team"}

\* lines 97-100: the default column names
off_col == "off_epa"
def_col == "def_epa"
off_weight_col == "off_plays"
def_weight_col == "def_plays"

\* line 133
SupportedModes == {"weekly", "season_to_date_avg", "trailing_avg"}

\* lines 14-15
coerce_numeric(c) == to_numeric(c)

\* a float column's entry as a rational
CellFloat(c) == IF isna(coerce_numeric(c)) THEN RNaN ELSE Frac(coerce_numeric(c), 1)

\* a + b of two floats
NanAdd(p, q) == IF IsRNaN(p) \/ IsRNaN(q) THEN RNaN ELSE RAdd(p, q)

\* weights that keep the play count of a week whose value is missing
mask_weights_Unmasked(v, wt) ==
    IF isna(to_numeric(wt)) THEN 0 ELSE to_numeric(wt)

\* lines 18-23
mask_weights(v, wt) ==
    IF isna(coerce_numeric(v)) THEN 0
    ELSE IF isna(to_numeric(wt)) THEN 0 ELSE to_numeric(wt)

\* lines 26-33
has_positive_weights(g, cs, vc, wc) ==
    /\ wc \in cs
    /\ \E i \in DOMAIN g : mask_weights(g[i][vc], g[i][wc]) > 0

\* Series.fillna(0) of a coerced value
FillnaZero(x) == IF isna(x) THEN 0 ELSE x

\* the sum of f over lo..hi
RECURSIVE RangeSum(_, _, _)
RangeSum(f, lo, hi) == IF hi < lo THEN 0 ELSE f[hi] + RangeSum(f, lo, hi - 1)

\* lines 41-44 and 52-55: numer / denom over the rows lo..hi, NA where denom is 0
WeightedMeanOver(g, vc, wc, lo, hi) ==
    LET weights == [i \in DOMAIN g |-> mask_weights(g[i][vc], g[i][wc])]
        products == [i \in DOMAIN g |->
                        FillnaZero(coerce_numeric(g[i][vc])) * weights[i]]
        numer == RangeSum(products, lo, hi)
        denom == RangeSum(weights, lo, hi)
    IN  IF denom = 0 THEN RNaN ELSE Frac(numer, denom)

\* lines 60 and 65: the mean of the values present in rows lo..hi (min_periods=1)
MeanOver(g, vc, lo, hi) ==
    LET present == [i \in DOMAIN g |->
                       IF isna(coerce_numeric(g[i][vc])) THEN 0 ELSE 1]
        values == [i \in DOMAIN g |-> FillnaZero(coerce_numeric(g[i][vc]))]
        count == RangeSum(present, lo, hi)
    IN  IF count = 0 THEN RNaN ELSE Frac(RangeSum(values, lo, hi), count)

\* the first row of a rolling window that ends at row k
WindowStart(k, win) == IF k - win + 1 < 1 THEN 1 ELSE k - win + 1

\* lines 36-44
weighted_expanding_mean(g, vc, wc) ==
    [k \in DOMAIN g |-> WeightedMeanOver(g, vc, wc, 1, k)]

\* lines 47-55
weighted_rolling_mean(g, vc, wc, win) ==
    [k \in DOMAIN g |-> WeightedMeanOver(g, vc, wc, WindowStart(k, win), k)]

\* lines 58-60
unweighted_expanding_mean(g, vc) ==
    [k \in DOMAIN g |-> MeanOver(g, vc, 1, k)]

\* lines 63-65
unweighted_rolling_mean(g, vc, win) ==
    [k \in DOMAIN g |-> MeanOver(g, vc, WindowStart(k, win), k)]

\* lines 68-90
compute_mode_values(g, cs, vc, wc, md, win) ==
    LET has_weights == has_positive_weights(g, cs, vc, wc)
    IN  IF md = "weekly" THEN [k \in DOMAIN g |-> CellFloat(g[k][vc])]
        ELSE IF md = "season_to_date_avg"
        THEN IF has_weights THEN weighted_expanding_mean(g, vc, wc)
                            ELSE unweighted_expanding_mean(g, vc)
        ELSE IF has_weights THEN weighted_rolling_mean(g, vc, wc, win)
                            ELSE unweighted_rolling_mean(g, vc, win)

\* the order of the team names
ModeTeamOrder == <<"AAA", "BBB">>
TeamRank(x) == CHOOSE i \in DOMAIN ModeTeamOrder : ModeTeamOrder[i] = x

\* line 139: the order of sort_values(["season", "team", "week"])
SortKeyLess(r, s) ==
    \/ r.season < s.season
    \/ r.season = s.season /\ TeamRank(r.team) < TeamRank(s.team)
    \/ r.season = s.season /\ r.team = s.team /\ r.week < s.week

RECURSIVE InsertRow(_, _)
InsertRow(sorted, r) ==
    IF sorted = <<>> THEN <<r>>
    ELSE IF SortKeyLess(r, Head(sorted)) THEN <<r>> \o sorted
    ELSE <<Head(sorted)>> \o InsertRow(Tail(sorted), r)

\* line 139: a stable sort
RECURSIVE sort_values(_)
sort_values(rows) ==
    IF rows = <<>> THEN <<>>
    ELSE InsertRow(sort_values(SubSeq(rows, 1, Len(rows) - 1)), rows[Len(rows)])

\* a key that ignores the season: every season of a team in one group
GroupKey_TeamOnly(r) == <<2020, r.team>>

\* line 155: the key of groupby(["season", "team"])
GroupKey(r) == <<r.season, r.team>>

\* the seasons of the model, and every group key in sorted order
ModeSeasons == <<2020, 2021>>
ModeKeyOrder ==
    [i \in 1..(Len(ModeSeasons) * Len(ModeTeamOrder)) |->
        <<ModeSeasons[((i - 1) \div Len(ModeTeamOrder)) + 1],
          ModeTeamOrder[((i - 1) % Len(ModeTeamOrder)) + 1]>>]

\* line 155: the keys of the groups, sorted
ModeGroupKeys(rows) ==
    SelectSeq(ModeKeyOrder, LAMBDA x : \E i \in DOMAIN rows : GroupKey(rows[i]) = x)

\* line 155: the rows of one group, in the order of sorted_df
ModeGroupRows(rows, key) == SelectSeq(rows, LAMBDA r : GroupKey(r) = key)

\* lines 141-153
transform(g, key, cs, md, win) ==
    LET offs == compute_mode_values(g, cs, off_col, off_weight_col, md, win)
        defs == compute_mode_values(g, cs, def_col, def_weight_col, md, win)
    IN  [k \in DOMAIN g |->
            [off_epa_mode |-> offs[k],
             def_epa_mode |-> defs[k],
             net_epa_mode |-> NanAdd(offs[k], defs[k])]
            @@ [season |-> key[1], team |-> key[2]]
            @@ g[k]]

\* lines 155-161: the frames of the groups, concatenated in key order
RECURSIVE ApplyTransform(_, _, _, _, _)
ApplyTransform(rows, keys, cs, md, win) ==
    IF keys = <<>> THEN <<>>
    ELSE transform(ModeGroupRows(rows, Head(keys)), Head(keys), cs, md, win)
            \o ApplyTransform(rows, Tail(keys), cs, md, win)

\* lines 139-163 for a table that passed the checks
ModeFrame(rows, cs, md, win) ==
    ApplyTransform(sort_values(rows), ModeGroupKeys(sort_values(rows)), cs, md, win)

\* a row of weekly team data
WeekRow(key, sample) ==
    [season |-> key[1], team |-> key[2], week |-> key[3],
     off_epa |-> sample[1], off_plays |-> sample[2],
     def_epa |-> sample[3], def_plays |-> sample[4]]

\* (season, team, week) of the rows the model draws: the primary key of
\* team_epa_weekly, so no two rows of a table share one
WeekKeys ==
    << <<2020, "AAA", 1>>, <<2020, "AAA", 2>>, <<2020, "AAA", 3>>,
       <<2021, "AAA", 1>>, <<2020, "BBB", 1>> >>

\* (off_epa, off_plays, def_epa, def_plays) of the rows the model draws
WeekSamples ==
    { <<Num(1), Num(1), Num(2), Num(2)>>,
      <<Num(3), Num(3), Missing, Num(2)>>,
      <<Missing, Num(2), Num(1), Num(0)>>,
      <<Num(5), Num(0), Num(3), Missing>> }

\* the members of a set of numbers in ascending order
RECURSIVE Ascending(_)
Ascending(S) ==
    IF S = {} THEN <<>>
    ELSE LET m == CHOOSE x \in S : \A y \in S : x <= y
         IN  <<m>> \o Ascending(S \ {m})

Reversed(q) == [i \in DOMAIN q |-> q[Len(q) + 1 - i]]

ModeColumns ==
    REQUIRED_BASE_COLUMNS \cup {off_col, def_col, off_weight_col, def_weight_col}

ModeColumnSets ==
    {ModeColumns, ModeColumns \ {off_weight_col, def_weight_col},
     ModeColumns \ {off_weight_col}, ModeColumns \ {def_col}}

\* the rows of a table: the keys of f in index order, or in the reverse of it
WeekRows(f, rev) ==
    LET asc == Ascending(DOMAIN f)
        order == IF rev THEN Reversed(asc) ELSE asc
    IN  [i \in DOMAIN order |-> WeekRow(WeekKeys[order[i]], f[order[i]])]

\* the tables the model passes: up to k rows with distinct keys
WeekFrames(k) ==
    {[kind |-> "DataFrame", columns |-> cs, rows |-> Project(WeekRows(f, rev), cs)] :
        cs \in ModeColumnSets,
        f \in UNION {[S -> WeekSamples] :
                        S \in {T \in SUBSET DOMAIN WeekKeys : Cardinality(T) <= k}},
        rev \in BOOLEAN}

\* (mode, window) of the calls the model makes
ModeCalls ==
    { <<"weekly", 3>>, <<"season_to_date_avg", 3>>, <<"trailing_avg", 2>>,
      <<"trailing_avg", 0>>, <<"season_avg", 3>> }

ModesLocals == <<sorted_df, grouped, group_key_pos, applied>>
ModesInputs == <<mode_df, mode, window>>
NotModes == <<SosAdjustmentVars, RecordsVars, FetcherVars, DbVars, StoreVars>>

\* lines 128-131
ModeCheckColumns ==
    /\ pc = "mode_check_columns"
    /\ IF (REQUIRED_BASE_COLUMNS \cup {off_col, def_col}) \ mode_df.columns # {}
         THEN /\ mode_result' = [kind |-> "ValueError", rows |-> <<>>]
              /\ pc' = "mode_done"
         ELSE /\ pc' = "mode_check_mode"
              /\ UNCHANGED mode_result
    /\ UNCHANGED <<ModesInputs, ModesLocals, NotModes>>

\* lines 133-134
ModeCheckMode ==
    /\ pc = "mode_check_mode"
    /\ IF mode \notin SupportedModes
         THEN /\ mode_result' = [kind |-> "ValueError", rows |-> <<>>]
              /\ pc' = "mode_done"
         ELSE /\ pc' = "mode_check_window"
              /\ UNCHANGED mode_result
    /\ UNCHANGED <<ModesInputs, ModesLocals, NotModes>>

\* lines 136-137
ModeCheckWindow ==
    /\ pc = "mode_check_window"
    /\ IF window <= 0
         THEN /\ mode_result' = [kind |-> "ValueError", rows |-> <<>>]
              /\ pc' = "mode_done"
         ELSE /\ pc' = "mode_sort"
              /\ UNCHANGED mode_result
    /\ UNCHANGED <<ModesInputs, ModesLocals, NotModes>>

\* line 139
ModeSort ==
    /\ pc = "mode_sort"
    /\ sorted_df' = sort_values(mode_df.rows)
    /\ pc' = "mode_group_by"
    /\ UNCHANGED <<ModesInputs, grouped, group_key_pos, applied, mode_result, NotModes>>

\* line 155
ModeGroupBy ==
    /\ pc = "mode_group_by"
    /\ grouped' = ModeGroupKeys(sorted_df)
    /\ group_key_pos' = 1
    /\ pc' = "mode_apply"
    /\ UNCHANGED <<ModesInputs, sorted_df, applied, mode_result, NotModes>>

\* lines 141-153 and 157: transform of one group
ModeTransform ==
    /\ pc = "mode_apply"
    /\ group_key_pos <= Len(grouped)
    /\ applied' = applied \o transform(ModeGroupRows(sorted_df, grouped[group_key_pos]),
                                       grouped[group_key_pos], mode_df.columns,
                                       mode, window)
    /\ group_key_pos' = group_key_pos + 1
    /\ UNCHANGED <<pc, ModesInputs, sorted_df, grouped, mode_result, NotModes>>

\* lines 161-163
ModeReturn ==
    /\ pc = "mode_apply"
    /\ group_key_pos > Len(grouped)
    /\ mode_result' = [kind |-> "DataFrame", rows |-> applied]
    /\ pc' = "mode_done"
    /\ UNCHANGED <<ModesInputs, ModesLocals, NotModes>>

\* a call apply_epa_mode(df, mode, window) about to start
InitModes ==
    /\ mode_df \in WeekFrames(MaxWeekRows)
    /\ \E c \in ModeCalls : mode = c[1] /\ window = c[2]
    /\ sorted_df = <<>>
    /\ grouped = <<>>
    /\ group_key_pos = 0
    /\ applied = <<>>
    /\ mode_result = NoModeResult
    /\ pc = "mode_check_columns"
    /\ columns = {}
    /\ team_games = <<>>
    /\ lam = 0
    /\ teams = <<>>
    /\ team_to_idx = <<>>
    /\ n = 0
    /\ total_vars = 0
    /\ AtA = <<>>
    /\ Atb = <<>>
    /\ equation_count = 0
    /\ row_pos = 0
    /\ ratings = <<>>
    /\ result = NoResult
    /\ NoSosCall
    /\ NoNetCall
    /\ NoRecordsCall
    /\ NoFetcherCall
    /\ NoDbCall
    /\ NoStoreCall

NextModes ==
    \/ ModeCheckColumns
    \/ ModeCheckMode
    \/ ModeCheckWindow
    \/ ModeSort
    \/ ModeGroupBy
    \/ ModeTransform
    \/ ModeReturn

SpecModes == InitModes /\ [][NextModes]_vars

(***************************************************************************)
(* save_team_epa_snapshot and get_cached_weeks on one database file.  A    *)
(* REAL is a rational; updated_at is left out.                             *)
(***************************************************************************)
MaxSaves == 2

StoreSeasons == {2023, 2024}
\* the (season, week) pairs saved: two weeks of one season, one of another
StoreSlots == { <<2023, 1>>, <<2023, 2>>, <<2024, 1>> }

\* (off_epa_sum, off_plays, def_epa_sum, def_plays) of the snapshot rows drawn
SnapshotSamples == { <<1, 2, -1, 1>>, <<-2, 1, 0, 2>> }
NoPlaysSample == <<0, 0, 1, 1>>

SnapshotRow(team, s) ==
    [team |-> team, off_epa_sum |-> s[1], off_plays |-> s[2],
     def_epa_sum |-> s[3], def_plays |-> s[4]]

SnapshotRows ==
    {SnapshotRow("A", s) : s \in SnapshotSamples} \cup {SnapshotRow("B", <<1, 2, -1, 1>>)}

\* line 174
required == {"team", "off_epa_sum", "off_plays", "def_epa_sum", "def_plays"}

\* the frames with positive play counts: no row, one row, two rows
SnapshotFrames ==
    {<<>>} \cup {<<r>> : r \in SnapshotRows}
           \cup {<<r[1], r[2]>> : r \in SnapshotRows \X SnapshotRows}

\* the calls save_team_epa_snapshot(df, season, week) drawn: every such frame
\* with the required columns, a frame with a row without plays, and a frame
\* that lacks a column
SaveCommands ==
    {[op |-> "save", columns |-> required, df |-> rows, season |-> slot[1],
      week |-> slot[2]] : rows \in SnapshotFrames, slot \in StoreSlots}
    \cup {[op |-> "save", columns |-> required,
           df |-> <<SnapshotRow("A", <<1, 2, -1, 1>>), SnapshotRow("B", NoPlaysSample)>>,
           season |-> 2023, week |-> 1],
          [op |-> "save", columns |-> required \ {"off_plays"},
           df |-> <<SnapshotRow("A", <<1, 2, -1, 1>>)>>, season |-> 2023, week |-> 1]}

\* the calls get_cached_weeks(season) drawn
WeeksCommands ==
    {[op |-> "weeks", columns |-> {}, df |-> <<>>, season |-> s, week |-> 0] :
        s \in StoreSeasons}

\* PRIMARY KEY (season, week, team), line 45
PrimaryKey(row) == <<row.season, row.week, row.team>>

\* INSERT of a row whose key is taken, without the ON CONFLICT clause
Upsert_InsertOnly(table, row) == table \cup {row}

\* lines 189-203: INSERT ... ON CONFLICT(season, week, team) DO UPDATE SET ...
Upsert(table, row) ==
    {x \in table : PrimaryKey(x) # PrimaryKey(row)} \cup {row}

\* lines 179-183: the frame with the per-play columns, season and week
WriteFrame(rows, season, wk) ==
    [i \in DOMAIN rows |->
        [season |-> season, week |-> wk, team |-> rows[i].team,
         off_epa_sum |-> rows[i].off_epa_sum, off_plays |-> rows[i].off_plays,
         def_epa_sum |-> rows[i].def_epa_sum, def_plays |-> rows[i].def_plays,
         EPA_off_per_play |-> FloatDiv(<<rows[i].off_epa_sum, 1>>, rows[i].off_plays),
         EPA_def_per_play |-> FloatDiv(<<rows[i].def_epa_sum, 1>>, rows[i].def_plays)]]

\* lines 206-219: the tuple of a row, its per-play values divided again
WriteTuple(row) ==
    [row EXCEPT !.EPA_off_per_play = Frac(row.off_epa_sum, row.off_plays),
                !.EPA_def_per_play = Frac(row.def_epa_sum, row.def_plays)]

\* ORDER BY week over SELECT DISTINCT week
RECURSIVE OrderBy(_)
OrderBy(S) ==
    IF S = {} THEN <<>>
    ELSE LET least == CHOOSE x \in S : \A y \in S : x <= y
         IN  <<least>> \o OrderBy(S \ {least})

NotStore == <<SosAdjustmentVars, RecordsVars, FetcherVars, DbVars, ModesVars>>

\* a caller calls save_team_epa_snapshot (lines 170-172) or get_cached_weeks
\* (line 89)
StoreCall ==
    /\ pc = "store_idle"
    /\ \E c \in SaveCommands \cup WeeksCommands :
          /\ c.op = "save" => Len(saved) < MaxSaves
          /\ store_call' = c
          /\ pc' = IF c.op = "save" THEN "save_check_columns" ELSE "weeks_query"
    /\ store_result' = NoStoreResult
    /\ df_to_write' = <<>>
    /\ write_pos' = 0
    /\ UNCHANGED <<team_epa_weekly, saved, NotStore>>

\* lines 174-179
SaveCheckColumns ==
    /\ pc = "save_check_columns"
    /\ IF required \ store_call.columns # {}
       THEN /\ store_result' = [kind |-> "ValueError", weeks |-> <<>>]
            /\ pc' = "store_idle"
       ELSE /\ store_result' = store_result
            /\ pc' = "save_derive"
    /\ UNCHANGED <<team_epa_weekly, store_call, df_to_write, write_pos, saved, NotStore>>

\* lines 179-185; init_db on a file whose weekly table has the current
\* columns creates the table when it is missing and changes no row
SaveDerive ==
    /\ pc = "save_derive"
    /\ df_to_write' = WriteFrame(store_call.df, store_call.season, store_call.week)
    /\ pc' = "save_tuples"
    /\ UNCHANGED <<team_epa_weekly, store_call, write_pos, store_result, saved, NotStore>>

\* lines 206-219: the list handed to executemany; a row without plays raises
\* ZeroDivisionError before any row is written
SaveTuples ==
    /\ pc = "save_tuples"
    /\ IF \E i \in DOMAIN df_to_write :
             df_to_write[i].off_plays = 0 \/ df_to_write[i].def_plays = 0
       THEN /\ store_result' = [kind |-> "ZeroDivisionError", weeks |-> <<>>]
            /\ df_to_write' = df_to_write
            /\ write_pos' = write_pos
            /\ pc' = "store_idle"
       ELSE /\ df_to_write' = [i \in DOMAIN df_to_write |-> WriteTuple(df_to_write[i])]
            /\ write_pos' = 1
            /\ store_result' = store_result
            /\ pc' = "save_execute"
    /\ UNCHANGED <<team_epa_weekly, store_call, saved, NotStore>>

\* lines 187-205: executemany, one tuple
SaveExecuteRow ==
    /\ pc = "save_execute"
    /\ write_pos <= Len(df_to_write)
    /\ team_epa_weekly' = Upsert(team_epa_weekly, df_to_write[write_pos])
    /\ write_pos' = write_pos + 1
    /\ UNCHANGED <<pc, store_call, df_to_write, store_result, saved, NotStore>>

\* lines 186 and 221: the transaction commits and the function returns None
SaveCommit ==
    /\ pc = "save_execute"
    /\ write_pos > Len(df_to_write)
    /\ saved' = Append(saved, [season |-> store_call.season, week |-> store_call.week,
                               df |-> store_call.df])
    /\ store_result' = [kind |-> "None", weeks |-> <<>>]
    /\ pc' = "store_idle"
    /\ UNCHANGED <<team_epa_weekly, store_call, df_to_write, write_pos, NotStore>>

\* lines 92-97; init_db changes no row
WeeksQuery ==
    /\ pc = "weeks_query"
    /\ store_result' =
          [kind |-> "list",
           weeks |-> OrderBy({row.week : row \in
                                 {x \in team_epa_weekly : x.season = store_call.season}})]
    /\ pc' = "store_idle"
    /\ UNCHANGED <<team_epa_weekly, store_call, df_to_write, write_pos, saved, NotStore>>

\* a database file with an empty weekly table and no call made yet
InitStore ==
    /\ pc = "store_idle"
    /\ NoStoreCall
    /\ columns = {}
    /\ team_games = <<>>
    /\ lam = 0
    /\ teams = <<>>
    /\ team_to_idx = <<>>
    /\ n = 0
    /\ total_vars = 0
    /\ AtA = <<>>
    /\ Atb = <<>>
    /\ equation_count = 0
    /\ row_pos = 0
    /\ ratings = <<>>
    /\ result = NoResult
    /\ NoSosCall
    /\ NoNetCall
    /\ NoRecordsCall
    /\ NoFetcherCall
    /\ NoDbCall
    /\ NoModesCall

NextStore ==
    \/ StoreCall
    \/ SaveCheckColumns
    \/ SaveDerive
    \/ SaveTuples
    \/ SaveExecuteRow
    \/ SaveCommit
    \/ WeeksQuery

SpecStore == InitStore /\ [][NextStore]_vars

(***************************************************************************)
(* Calls of the two estimators on tables that also hold rows whose team    *)
(* and opp are the same identifier.                                        *)
(***************************************************************************)
MaxLeagueRows == 2

\* (off_epa_pp, off_plays, def_epa_pp, def_plays) of the rows of these tables
LeagueSamples == { <<1, 2, 1, 1>>, <<-1, 1, -1, 2>>, <<0, 0, 0, 0>>, <<NaN, 1, 1, 2>> }

\* (team, opp) of the rows of these tables
LeagueMatchups ==
    { <<"A", "A">>, <<"A", "B">>, <<"B", "A">>, <<"B", "B">>, <<"C", "B">> }

LeagueRows == {Game(m[1], m[2], s) : m \in LeagueMatchups, s \in LeagueSamples}

LeagueTables(k) == UNION {[1..m -> LeagueRows] : m \in 0..k}

LeagueNetRows ==
    {NetGame(m[1], m[2], s) : m \in LeagueMatchups, s \in NetSamples \cup {<<1, -1>>}}

LeagueNetTables(k) == UNION {[1..m -> LeagueNetRows] : m \in 0..k}

\* a call of either estimator about to start
InitLeague ==
    /\ \/ /\ columns = RequiredOffDef
          /\ team_games \in LeagueTables(MaxLeagueRows)
          /\ pc = "check_columns"
       \/ /\ columns = RequiredNet
          /\ team_games \in LeagueNetTables(MaxLeagueRows)
          /\ pc = "net_check_columns"
    /\ lam \in Lams
    /\ teams = <<>>
    /\ team_to_idx = <<>>
    /\ n = 0
    /\ total_vars = 0
    /\ AtA = <<>>
    /\ Atb = <<>>
    /\ equation_count = 0
    /\ row_pos = 0
    /\ ratings = <<>>
    /\ result = NoResult
    /\ NoSosCall
    /\ NoNetCall
    /\ ElsewhereIdle

SpecLeague == InitLeague /\ [][Next]_vars

(***************************************************************************)
(* Properties of compute_sos_adjusted_off_def.                             *)
(***************************************************************************)
Returned == pc = "done" /\ result.kind = "DataFrame"

\* the values of a returned frame, offense then defense
FrameValues(r) == [i \in DOMAIN r.off_rating |-> r.off_rating[i]] \o
                  [i \in DOMAIN r.def_rating |-> r.def_rating[i]]

RECURSIVE SeqSum(_)
SeqSum(q) == IF q = <<>> THEN Zero ELSE RAdd(Head(q), SeqSum(Tail(q)))

\* the sides the claims call contributing
OffenseQualifies(row) ==
    /\ row.off_plays # NaN
    /\ row.off_plays > 0
    /\ row.off_epa_pp # NaN
DefenseQualifies(row) ==
    /\ row.def_plays # NaN
    /\ row.def_plays > 0
    /\ row.def_epa_pp # NaN

HasAllColumns == RequiredOffDef \subseteq columns

\* the number of constraints the whole table contributes
ConstraintCount(t) ==
    Cardinality({i \in DOMAIN t : OffenseQualifies(t[i])})
        + Cardinality({i \in DOMAIN t : DefenseQualifies(t[i])})

\* C1: whenever the table contributes at least one constraint and lam > 0, the
\* call returns a frame of 2N values (N the number of teams in the table)
\* whose mean, offense and defense ratings together, is 0.
C1_CenteringInvariant ==
    (pc = "done" /\ HasAllColumns /\ lam > 0 /\ ConstraintCount(team_games) > 0)
        => /\ result.kind = "DataFrame"
           /\ Len(FrameValues(result)) = 2 * Len(TeamUniverse(team_games))
           /\ RDivInt(SeqSum(FrameValues(result)), Len(FrameValues(result))) = Zero

\* a three-team frame with a non-zero rating was returned
C1_Witness ==
    /\ Returned /\ lam > 0
    /\ ConstraintCount(team_games) > 0
    /\ Len(result.index) = 3
    /\ \E i \in DOMAIN result.off_rating : result.off_rating[i] # Zero

AllWeightsZero(t) == \A i \in DOMAIN t : t[i].off_plays = 0 /\ t[i].def_plays = 0

\* C2: a table with no rows, and a table whose rows all have off_plays = 0 and
\* def_plays = 0, makes the call return the empty frame: no exception and no
\* row of zero ratings for the teams named in the table.
C2_EmptyInputLaw ==
    (pc = "done" /\ HasAllColumns /\ AllWeightsZero(team_games))
        => result = EmptyFrame

\* the call returned for a non-empty table of zero-weight rows
C2_Witness ==
    /\ pc = "done" /\ HasAllColumns
    /\ Len(team_games) = 2
    /\ AllWeightsZero(team_games)
    /\ \E i \in DOMAIN team_games : team_games[i].off_epa_pp # 0
    /\ result = EmptyFrame

ZeroSignal(t) == \A i \in DOMAIN t : t[i].off_epa_pp = 0 /\ t[i].def_epa_pp = 0

\* C3: when every off_epa_pp and def_epa_pp is 0, some row has a positive play
\* count and lam > 0, the call returns one row per team and every off_rating
\* and def_rating is 0.
C3_ZeroSignal ==
    (pc = "done" /\ HasAllColumns /\ lam > 0 /\ ZeroSignal(team_games)
        /\ ConstraintCount(team_games) > 0)
        => /\ result.kind = "DataFrame"
           /\ result.index = TeamUniverse(team_games)
           /\ \A i \in DOMAIN result.index :
                 result.off_rating[i] = Zero /\ result.def_rating[i] = Zero

\* a zero-signal table with unequal play counts was rated
C3_Witness ==
    /\ Returned /\ lam > 0
    /\ ZeroSignal(team_games)
    /\ Len(team_games) = 2
    /\ ConstraintCount(team_games) > 2
    /\ \E i \in DOMAIN team_games : team_games[i].off_plays # team_games[i].def_plays
    /\ Len(result.index) >= 2

\* M plus the weighted outer product of the constraint x_a - x_b = y
Kronecker(i, j) == IF i = j THEN 1 ELSE 0
PlusOuter(M, p, q, weight) ==
    [i \in DOMAIN M |-> [j \in DOMAIN M |->
        M[i][j] + weight * (Kronecker(i, p) - Kronecker(i, q))
                         * (Kronecker(j, p) - Kronecker(j, q))]]
PlusVector(v, p, q, weight, y) ==
    [i \in DOMAIN v |-> v[i] + weight * y * (Kronecker(i, p) - Kronecker(i, q))]

\* what one row adds when exactly its qualifying sides contribute
ExpectedAtA(M, row) ==
    LET t == team_to_idx[row.team]
        o == team_to_idx[row.opp]
        M1 == IF OffenseQualifies(row) THEN PlusOuter(M, t, o + n, row.off_plays) ELSE M
    IN  IF DefenseQualifies(row) THEN PlusOuter(M1, t + n, o, row.def_plays) ELSE M1
ExpectedAtb(v, row) ==
    LET t == team_to_idx[row.team]
        o == team_to_idx[row.opp]
        v1 == IF OffenseQualifies(row)
              THEN PlusVector(v, t, o + n, row.off_plays, row.off_epa_pp) ELSE v
    IN  IF DefenseQualifies(row)
        THEN PlusVector(v1, t + n, o, row.def_plays, row.def_epa_pp) ELSE v1
QualifyingSides(row) ==
    (IF OffenseQualifies(row) THEN 1 ELSE 0) + (IF DefenseQualifies(row) THEN 1 ELSE 0)

\* C7: in every iteration of the loop a side contributes a constraint exactly
\* when its play count is a number > 0 and its value is not NaN; an excluded
\* side leaves AtA, Atb and equation_count as they were, the other side of the
\* row still contributes, and no NaN is added to the system.
C7_SideExclusion ==
    [][(pc = "accumulate" /\ row_pos <= Len(team_games))
        => LET row == team_games[row_pos] IN
           /\ AtA' = ExpectedAtA(AtA, row)
           /\ Atb' = ExpectedAtb(Atb, row)
           /\ equation_count' = equation_count + QualifyingSides(row)]_vars

\* the first row had a NaN offense value and a qualifying defense side, and
\* the loop counted one constraint for it
C7_Witness ==
    /\ pc = "accumulate" /\ row_pos = 2
    /\ team_games[1].off_epa_pp = NaN
    /\ FloatGt(team_games[1].off_plays, 0)
    /\ DefenseQualifies(team_games[1])
    /\ equation_count = 1

\* no local of either estimator has been assigned
NothingComputed ==
    /\ teams = <<>> /\ team_to_idx = <<>> /\ n = 0 /\ total_vars = 0
    /\ AtA = <<>> /\ Atb = <<>> /\ equation_count = 0 /\ row_pos = 0
    /\ ratings = <<>>
    /\ A = <<>> /\ b = <<>> /\ w = <<>> /\ lhs = <<>> /\ rhs = <<>>

InOffDef ==
    pc \in {"check_columns", "check_empty", "build_index", "accumulate", "regularize",
            "solve", "centre", "return", "done"}
InNet ==
    pc \in {"net_check_columns", "net_check_empty", "net_build_index", "net_fill",
            "net_solve", "net_centre", "net_return", "net_done"}

\* C6: a table that lacks one of team, opp, off_epa_pp, off_plays, def_epa_pp,
\* def_plays makes compute_sos_adjusted_off_def raise ValueError as its first
\* step: the call is either at the column check or has ended with ValueError,
\* no team index, accumulator or solution was ever assigned and no ratings
\* are returned.  The same holds for compute_sos_adjusted_net_epa and team,
\* opp, net_epa_pp, plays.
C6_MissingColumnsRaise ==
    /\ (InOffDef /\ ~({"team", "opp", "off_epa_pp", "off_plays", "def_epa_pp", "def_plays"}
                        \subseteq columns))
          => /\ pc \in {"check_columns", "done"}
             /\ NothingComputed
             /\ pc = "done" => result = Raised("ValueError")
             /\ pc # "done" => result = NoResult
    /\ (InNet /\ ~({"team", "opp", "net_epa_pp", "plays"} \subseteq columns))
          => /\ pc \in {"net_check_columns", "net_done"}
             /\ NothingComputed
             /\ pc = "net_done" => net_result = RaisedSeries("ValueError")
             /\ pc # "net_done" => net_result = NoSeries

\* a one-row table without the opp column was rejected
C6_Witness ==
    /\ pc = "done"
    /\ columns = {"team", "off_epa_pp", "off_plays", "def_epa_pp", "def_plays"}
    /\ Len(team_games) = 1
    /\ result = Raised("ValueError")
    /\ NothingComputed

\* C8: a call returns what every earlier call with the same table and lam
\* returned, whatever tables were rated in between: the outcome depends on
\* the arguments of the call alone.
C8_SameInputSameResult ==
    pc = "done" =>
        \A i \in DOMAIN history :
            (history[i].team_games = team_games /\ history[i].lam = lam)
                => history[i].result = result

\* the third call repeats the first after a different table was rated, and
\* all three returned ratings
C8_Witness ==
    /\ Returned
    /\ Len(history) = 2
    /\ history[1].team_games = team_games /\ history[1].lam = lam
    /\ history[2].team_games # team_games
    /\ Len(history[2].result.index) = 2
    /\ Len(result.index) = 2
    /\ result.off_rating[1] # Zero
    /\ history[1].result = result

\* C9: with lam = 0 and a singular accumulated system the call signals a
\* dedicated "regularization required" condition.
C9_RegularizationRequired ==
    (pc = "done" /\ HasAllColumns /\ lam = 0 /\ equation_count > 0
        /\ Singular(AtA, total_vars))
        => result.kind = "RegularizationRequired"

(***************************************************************************)
(* Properties of compute_split_sos_faced.                                  *)
(***************************************************************************)
SosReturned == pc = "sos_done" /\ sos.kind = "SeriesPair"

\* the position of a team in the returned index, 0 when it has none
IndexOf(ix, team) ==
    IF \E i \in DOMAIN ix : ix[i] = team THEN CHOOSE i \in DOMAIN ix : ix[i] = team ELSE 0

RowsOf(t, team) == {i \in DOMAIN t : t[i].team = team}

\* play counts as the data model has them: numbers, never negative
ValidPlays(t) ==
    \A i \in DOMAIN t :
        /\ t[i].off_plays # NaN /\ t[i].off_plays >= 0
        /\ t[i].def_plays # NaN /\ t[i].def_plays >= 0

\* sum over the rows in I of plays * rating[opp], and of plays
RECURSIVE WeightedRatingSum(_, _, _, _)
WeightedRatingSum(t, I, field, rating) ==
    IF I = {} THEN Zero
    ELSE LET i == CHOOSE j \in I : TRUE
         IN  RAdd(RMul(<<t[i][field], 1>>, rating[t[i].opp]),
                  WeightedRatingSum(t, I \ {i}, field, rating))
RECURSIVE PlaySum(_, _, _)
PlaySum(t, I, field) ==
    IF I = {} THEN 0
    ELSE LET i == CHOOSE j \in I : TRUE IN t[i][field] + PlaySum(t, I \ {i}, field)

AllOpponentsRated(t) ==
    \A i \in DOMAIN t : t[i].opp \in DOMAIN off_rating /\ t[i].opp \in DOMAIN def_rating

\* C4: when every opponent has a rating, a team with positive total off_plays
\* gets sos_off_faced = sum(off_plays * def_rating[opp]) / sum(off_plays), a
\* team with positive total def_plays gets sos_def_faced =
\* sum(def_plays * off_rating[opp]) / sum(def_plays): the opponent's opposite
\* axis.  If all of the team's opponents share the rating r the value is r.
C4_OpponentAxes ==
    (SosReturned /\ AllOpponentsRated(team_games) /\ ValidPlays(team_games))
        => \A team \in GroupKeys(team_games) :
             LET I == RowsOf(team_games, team)
                 k == IndexOf(sos.index, team)
             IN  /\ k # 0
                 /\ PlaySum(team_games, I, "off_plays") > 0
                      => /\ sos.sos_off[k] =
                              RDivInt(WeightedRatingSum(team_games, I, "off_plays", def_rating),
                                      PlaySum(team_games, I, "off_plays"))
                         /\ \A r \in {def_rating[x] : x \in DOMAIN def_rating} :
                              (\A i \in I : def_rating[team_games[i].opp] = r)
                                  => sos.sos_off[k] = r
                 /\ PlaySum(team_games, I, "def_plays") > 0
                      => /\ sos.sos_def[k] =
                              RDivInt(WeightedRatingSum(team_games, I, "def_plays", off_rating),
                                      PlaySum(team_games, I, "def_plays"))
                         /\ \A r \in {off_rating[x] : x \in DOMAIN off_rating} :
                              (\A i \in I : off_rating[team_games[i].opp] = r)
                                  => sos.sos_def[k] = r

\* B met A and C with different play counts; both opponents have the same
\* defense rating and different offense ratings
C4_Witness ==
    /\ SosReturned
    /\ AllOpponentsRated(team_games) /\ ValidPlays(team_games)
    /\ Len(team_games) = 2
    /\ team_games[1].team = "B" /\ team_games[1].opp = "A"
    /\ team_games[2].team = "B" /\ team_games[2].opp = "C"
    /\ team_games[1].off_plays > 0 /\ team_games[2].off_plays > 0
    /\ team_games[1].off_plays # team_games[2].off_plays
    /\ team_games[1].def_plays # team_games[2].def_plays
    /\ sos.sos_off[IndexOf(sos.index, "B")] = def_rating["A"]
    /\ sos.sos_def[IndexOf(sos.index, "B")] # off_rating["A"]
    /\ sos.sos_def[IndexOf(sos.index, "B")] # off_rating["C"]

IsNumber(r) == r[2] # 0

\* the total weight of a team on a side: what its rows count for
SideWeight(t, team, field) ==
    LET I == {i \in RowsOf(t, team) : t[i][field] # NaN /\ t[i][field] > 0}
    IN  PlaySum(t, I, field)

\* C5: for a non-empty table both returned vectors have exactly one entry per
\* team appearing as team or opp, no entry is NaN, and a team whose total
\* weight on a side is zero (a team seen only as opp included) or none of
\* whose opponents is rated gets 0 on that side.
C5_FullUniverseNoNaN ==
    (SosReturned /\ Len(team_games) > 0)
        => /\ sos.index = TeamUniverse(team_games)
           /\ DOMAIN sos.sos_off = DOMAIN sos.index
           /\ DOMAIN sos.sos_def = DOMAIN sos.index
           /\ \A k \in DOMAIN sos.index :
                 LET team == sos.index[k]
                     I == RowsOf(team_games, team)
                 IN  /\ IsNumber(sos.sos_off[k])
                     /\ IsNumber(sos.sos_def[k])
                     /\ SideWeight(team_games, team, "off_plays") = 0
                          => sos.sos_off[k] = Zero
                     /\ SideWeight(team_games, team, "def_plays") = 0
                          => sos.sos_def[k] = Zero
                     /\ (\A i \in I : team_games[i].opp \notin DOMAIN def_rating)
                          => sos.sos_off[k] = Zero
                     /\ (\A i \in I : team_games[i].opp \notin DOMAIN off_rating)
                          => sos.sos_def[k] = Zero

\* A played the unrated B with positive play counts, B has rows of zero
\* weight only on offense ... and C appears only as opp
C5_Witness ==
    /\ SosReturned
    /\ Len(team_games) = 2
    /\ team_games[1].team = "A" /\ team_games[1].off_plays = 2
    /\ "B" \notin DOMAIN def_rating
    /\ team_games[2].team = "B" /\ team_games[2].opp = "C"
    /\ team_games[2].off_plays = 0 /\ team_games[2].def_plays = 2
    /\ "C" \in DOMAIN off_rating
    /\ sos.index = <<"A", "B", "C">>
    /\ sos.sos_off = <<Zero, Zero, Zero>>
    /\ sos.sos_def[2] # Zero

InsufficientData(t) == Len(t) = 0 \/ AllWeightsZero(t)

\* C10 as stated: an empty table and a table of zero-weight rows both make
\* compute_split_sos_faced return two vectors with no entries.
C10_EmptyStrengthResult ==
    (pc = "sos_done" /\ InsufficientData(team_games))
        => sos = SeriesPair(<<>>, <<>>, <<>>)

\* C10 amended: an empty table gives two vectors with no entries; a non-empty
\* table of zero-weight rows gives, without an error, one entry per team
\* appearing as team or opp, each 0 on both sides.
C10_ZeroWeightsGiveZeros ==
    (pc = "sos_done" /\ InsufficientData(team_games))
        => /\ sos.kind = "SeriesPair"
           /\ sos.index = TeamUniverse(team_games)
           /\ sos.sos_off = [k \in DOMAIN sos.index |-> Zero]
           /\ sos.sos_def = [k \in DOMAIN sos.index |-> Zero]
           /\ Len(team_games) = 0 => sos = SeriesPair(<<>>, <<>>, <<>>)

\* a two-row table of zero-weight rows with rated opponents was answered
C10_Witness ==
    /\ SosReturned
    /\ Len(team_games) = 2
    /\ AllWeightsZero(team_games)
    /\ AllOpponentsRated(team_games)
    /\ Len(sos.index) = 3

(***************************************************************************)
(* Properties of whole seasons.                                            *)
(***************************************************************************)
\* the mean of all the values of a returned frame
FrameMean(r) == RDivInt(SeqSum(FrameValues(r)), Len(FrameValues(r)))

\* one row per team; A's values positive, B's the mirrored negative values;
\* all play counts equal and positive
MirroredTwoTeam(t) ==
    /\ Len(t) = 2
    /\ t[1].team = "A" /\ t[1].opp = "B"
    /\ t[2].team = "B" /\ t[2].opp = "A"
    /\ t[1].off_epa_pp # NaN /\ t[1].off_epa_pp > 0
    /\ t[1].def_epa_pp # NaN /\ t[1].def_epa_pp > 0
    /\ t[2].off_epa_pp = -t[1].off_epa_pp
    /\ t[2].def_epa_pp = -t[1].def_epa_pp
    /\ t[1].off_plays # NaN /\ t[1].off_plays > 0
    /\ \A i \in 1..2 : t[i].off_plays = t[1].off_plays /\ t[i].def_plays = t[1].off_plays

\* C11: for a two-team table with one row per team, A's values positive, B's
\* the mirrored negative values, equal positive play counts and lam > 0, the
\* four returned ratings have mean 0 and A is rated strictly above B on both
\* axes.
C11_MirroredPairOrdering ==
    (pc = "done" /\ MirroredTwoTeam(team_games) /\ lam > 0)
        => /\ result.kind = "DataFrame"
           /\ result.index = <<"A", "B">>
           /\ FrameMean(result) = Zero
           /\ RLess(result.off_rating[2], result.off_rating[1])
           /\ RLess(result.def_rating[2], result.def_rating[1])

\* the scenario with values 0.2 and 0.1 (in tenths), 60 plays and lam = 1
C11_Witness ==
    /\ pc = "done"
    /\ team_games = MirroredPair(2, 1, 60)
    /\ lam = 1
    /\ result.kind = "DataFrame"
    /\ RLess(Zero, result.off_rating[1])
    /\ RLess(result.def_rating[2], Zero)

\* A meets only B, C meets only B, B meets both; in each game the better team
\* (A over B, B over C) has positive values and the worse team the mirrored
\* negative values; all play counts equal and positive
IsChain(t) ==
    /\ Len(t) = 4
    /\ t[1].team = "A" /\ t[1].opp = "B"
    /\ t[2].team = "B" /\ t[2].opp = "A"
    /\ t[3].team = "B" /\ t[3].opp = "C"
    /\ t[4].team = "C" /\ t[4].opp = "B"
    /\ \A i \in {1, 3} :
          /\ t[i].off_epa_pp # NaN /\ t[i].off_epa_pp > 0
          /\ t[i].def_epa_pp # NaN /\ t[i].def_epa_pp > 0
          /\ t[i + 1].off_epa_pp = -t[i].off_epa_pp
          /\ t[i + 1].def_epa_pp = -t[i].def_epa_pp
    /\ t[1].off_plays # NaN /\ t[1].off_plays > 0
    /\ \A i \in 1..4 : t[i].off_plays = t[1].off_plays /\ t[i].def_plays = t[1].off_plays

\* off_rating + def_rating of a team of a returned frame
Composite(r, team) ==
    LET k == IndexOf(r.index, team) IN RAdd(r.off_rating[k], r.def_rating[k])

\* rating(A) > rating(B) > rating(C)
ChainOrdered(r) ==
    /\ RLess(Composite(r, "B"), Composite(r, "A"))
    /\ RLess(Composite(r, "C"), Composite(r, "B"))

\* C12 as stated: for every such chain and every lam > 0 the composite rating
\* off_rating + def_rating orders rating(A) > rating(B) > rating(C).
C12_ChainOrdering ==
    (pc = "done" /\ IsChain(team_games) /\ lam > 0)
        => /\ result.kind = "DataFrame"
           /\ ChainOrdered(result)

\* the margin of a game: off_epa_pp + def_epa_pp of the better team's row
GameMargin(t, i) == t[i].off_epa_pp + t[i].def_epa_pp

\* C12 amended: for such a chain with play count p and lam > 0 the composite
\* ratings order rating(A) > rating(B) > rating(C) exactly when
\* lam * M1 < (2 * lam + 6 * p) * M2 and lam * M2 < (2 * lam + 6 * p) * M1,
\* M1 and M2 the margins of the A-B and the B-C game; so they do whenever
\* neither margin is more than twice the other.
C12_ChainOrderingWithinMargins ==
    (pc = "done" /\ IsChain(team_games) /\ lam > 0)
        => LET M1 == GameMargin(team_games, 1)
               M2 == GameMargin(team_games, 3)
               p == team_games[1].off_plays
           IN  /\ result.kind = "DataFrame"
               /\ RLess(Composite(result, "B"), Composite(result, "A"))
                     <=> lam * M2 < (2 * lam + 6 * p) * M1
               /\ RLess(Composite(result, "C"), Composite(result, "B"))
                     <=> lam * M1 < (2 * lam + 6 * p) * M2
               /\ (M1 <= 2 * M2 /\ M2 <= 2 * M1) => ChainOrdered(result)

\* a chain with unequal margins, neither more than twice the other, was rated
C12_Witness ==
    /\ pc = "done"
    /\ IsChain(team_games)
    /\ GameMargin(team_games, 1) = 2 * GameMargin(team_games, 3)
    /\ team_games[1].off_epa_pp # team_games[1].def_epa_pp
    /\ lam = 2
    /\ result.kind = "DataFrame"
    /\ ChainOrdered(result)

\* the value of a team in a returned schedule-strength vector
SosOf(vec, team) == vec[IndexOf(sos.index, team)]

\* the ratings were passed on and the schedule strengths of the chain returned
ChainSosReturned ==
    /\ SosReturned
    /\ IsChain(team_games)
    /\ lam > 0
    /\ result.kind = "DataFrame"
    /\ off_rating = RatingColumn(result, "off_rating")
    /\ def_rating = RatingColumn(result, "def_rating")

\* C13 as stated: in a chain rated A > B > C the schedule strength faced by
\* A, who played only B, is lower than that of C, the other team with a
\* single opponent, on at least one side.
C13_WeakestOpponentLowerSos ==
    (ChainSosReturned /\ ChainOrdered(result))
        => \/ RLess(SosOf(sos.sos_off, "A"), SosOf(sos.sos_off, "C"))
           \/ RLess(SosOf(sos.sos_def, "A"), SosOf(sos.sos_def, "C"))

\* C13 amended: A and C both played only B and get the same schedule
\* strength faced on each side, B's rating on the opposite axis; B, who
\* played A and C, gets the mean of theirs, and A's value is lower than
\* B's on both sides exactly when the A-B margin exceeds the B-C margin.
C13_SingleOpponentSameSos ==
    ChainSosReturned
        => /\ SosOf(sos.sos_off, "A") = def_rating["B"]
           /\ SosOf(sos.sos_off, "C") = def_rating["B"]
           /\ SosOf(sos.sos_def, "A") = off_rating["B"]
           /\ SosOf(sos.sos_def, "C") = off_rating["B"]
           /\ SosOf(sos.sos_off, "B") = RDivInt(RAdd(def_rating["A"], def_rating["C"]), 2)
           /\ SosOf(sos.sos_def, "B") = RDivInt(RAdd(off_rating["A"], off_rating["C"]), 2)
           /\ (/\ RLess(SosOf(sos.sos_off, "A"), SosOf(sos.sos_off, "B"))
               /\ RLess(SosOf(sos.sos_def, "A"), SosOf(sos.sos_def, "B")))
                 <=> GameMargin(team_games, 1) > GameMargin(team_games, 3)

\* a chain rated A > B > C whose B has a non-zero rating got its schedule
\* strengths
C13_Witness ==
    /\ ChainSosReturned
    /\ ChainOrdered(result)
    /\ GameMargin(team_games, 1) > GameMargin(team_games, 3)
    /\ def_rating["B"] # Zero
    /\ def_rating["A"] # def_rating["B"]
    /\ SosOf(sos.sos_off, "A") = SosOf(sos.sos_off, "C")

\* A and B meet twice; each row of the second game has the play counts of
\* the first game's row of the same team and the values that cancel it
IsOffsetting(t) ==
    /\ Len(t) = 4
    /\ \A i \in {1, 3} : t[i].team = "A" /\ t[i].opp = "B"
    /\ \A i \in {2, 4} : t[i].team = "B" /\ t[i].opp = "A"
    /\ \A i \in {1, 2} :
          /\ OffenseQualifies(t[i]) /\ DefenseQualifies(t[i])
          /\ t[i + 2].off_epa_pp = -t[i].off_epa_pp
          /\ t[i + 2].def_epa_pp = -t[i].def_epa_pp
          /\ t[i + 2].off_plays = t[i].off_plays
          /\ t[i + 2].def_plays = t[i].def_plays

\* C14: when A and B play twice with exactly offsetting values and equal
\* play counts, every off_rating and def_rating of both teams is 0 for any
\* lam > 0.
C14_OffsettingGamesRateZero ==
    (pc = "done" /\ IsOffsetting(team_games) /\ lam > 0)
        => /\ result.kind = "DataFrame"
           /\ result.index = <<"A", "B">>
           /\ \A i \in 1..2 : result.off_rating[i] = Zero /\ result.def_rating[i] = Zero

\* two offsetting games with non-zero values and unequal play counts between
\* the teams were rated
C14_Witness ==
    /\ pc = "done"
    /\ IsOffsetting(team_games)
    /\ team_games[1].off_epa_pp = 2
    /\ team_games[2].off_epa_pp = 1
    /\ team_games[1].off_plays # team_games[2].off_plays
    /\ equation_count = 8
    /\ result.kind = "DataFrame"

(***************************************************************************)
(* Properties of compute_records.                                          *)
(***************************************************************************)
\* a score that is there: a number, or text reading as one, and not negative
ScorePresent(c) == c[1] \in {"num", "str"} /\ c[2] >= 0

\* the rows of a team that have both scores
CountedRows(rows, team) ==
    {i \in DOMAIN rows : /\ rows[i].team = team
                         /\ ScorePresent(rows[i].points_for)
                         /\ ScorePresent(rows[i].points_against)}

RecordsReturned ==
    /\ pc = "rec_done"
    /\ records_result.kind = "dict"
    /\ RecordColumns \subseteq game_rows.columns

\* C15: compute_records ignores every row whose points_for or points_against
\* is missing or negative; over the remaining rows of each team wins, losses
\* and ties count the rows with points_for >, < and = points_against, they
\* add up to the number of counted rows, win_pct = (wins + 0.5 * ties) /
\* counted, and a team with no counted row has no entry.
C15_RecordsIgnoreMissingScores ==
    RecordsReturned
        => LET rows == game_rows.rows
               named == {rows[i].team : i \in DOMAIN rows}
           IN  /\ DOMAIN records_result.value =
                     {team \in named : CountedRows(rows, team) # {}}
               /\ \A team \in DOMAIN records_result.value :
                     LET I == CountedRows(rows, team)
                         rec == records_result.value[team]
                     IN  /\ rec.wins = Cardinality({i \in I :
                                rows[i].points_for[2] > rows[i].points_against[2]})
                         /\ rec.losses = Cardinality({i \in I :
                                rows[i].points_for[2] < rows[i].points_against[2]})
                         /\ rec.ties = Cardinality({i \in I :
                                rows[i].points_for[2] = rows[i].points_against[2]})
                         /\ rec.wins + rec.losses + rec.ties = Cardinality(I)
                         /\ rec.win_pct =
                                Frac(2 * rec.wins + rec.ties, 2 * Cardinality(I))

\* AAA won 10-7, has a row with the -1 sentinel and tied 3-3 (the tested
\* table); its record is 1-0-1 and its winning percentage 3/4
C15_Witness ==
    /\ RecordsReturned
    /\ game_rows.rows = <<ScoreRow("AAA", <<Num(10), Num(7)>>),
                          ScoreRow("AAA", <<Num(-1), Num(-1)>>),
                          ScoreRow("AAA", <<Num(3), Num(3)>>)>>
    /\ records_result.value["AAA"].record = <<1, 0, 1>>
    /\ records_result.value["AAA"].win_pct = <<3, 4>>

(***************************************************************************)
(* Properties of compute_team_game_epa.                                    *)
(***************************************************************************)
TeamGamesReturned == pc = "fetch_done" /\ team_game_epa.kind = "DataFrame"

\* the table names the home and away team and has a pair of score columns
ScoreColumnsPresent ==
    /\ TeamColumns \subseteq pbp.columns
    /\ RunningScoreColumns \subseteq pbp.columns \/ FinalScoreColumns \subseteq pbp.columns

\* the score column of a side: the running total where the table has it
ScoreColumnOf(side) ==
    IF RunningScoreColumns \subseteq pbp.columns
    THEN (IF side = "home" THEN "total_home_score" ELSE "total_away_score")
    ELSE (IF side = "home" THEN "home_score" ELSE "away_score")

\* the final score of a side: the maximum of its totals over all the plays of
\* the game in the table passed in, -1 when no play carries a number
GameFinalScore(g, side) ==
    LET S == {to_numeric(pbp.rows[i][ScoreColumnOf(side)]) :
                 i \in {j \in DOMAIN pbp.rows : pbp.rows[j].game_id = g}} \ {NaN}
    IN  IF S = {} THEN -1 ELSE CHOOSE m \in S : \A x \in S : x <= m

\* the home or away team the plays of the game name
GameTeam(g, col) == Upper(FirstText(pbp.rows, g, col))

\* C16: in every returned row points_for and points_against are the game's
\* final scores, the maximum of the running home and away totals over the
\* game's plays, given to the row by whether its team is the home or the
\* away team, or the sentinel -1 when score columns are absent (or the game
\* has no total, or the team is neither side); a missing score is never 0.
C16_FinalScoresOrSentinel ==
    TeamGamesReturned
        => \A r \in team_game_epa.rows :
             IF ~ScoreColumnsPresent
             THEN r.points_for = -1 /\ r.points_against = -1
             ELSE LET home == GameTeam(r.game_id, "home_team")
                      away == GameTeam(r.game_id, "away_team")
                      home_points == GameFinalScore(r.game_id, "home")
                      away_points == GameFinalScore(r.game_id, "away")
                  IN  /\ r.team = home
                        => r.points_for = home_points /\ r.points_against = away_points
                      /\ (r.team = away /\ r.team # home)
                        => r.points_for = away_points /\ r.points_against = home_points
                      /\ r.team \notin {home, away}
                        => r.points_for = -1 /\ r.points_against = -1

(***************************************************************************)
(* Properties of init_db.                                                  *)
(***************************************************************************)
InitDbReturned == pc = "db_done" /\ conn = "Connection"
LegacyDefaultScores(r) == r.points_for = 0 /\ r.points_against = 0

\* C17: when init_db has returned, every row of team_epa_games that carried
\* the legacy default scores points_for = 0 and points_against = 0 when the
\* database was opened reads back as the missing-score sentinel (-1, -1).
C17_LegacyZeroScoresMigrated ==
    InitDbReturned =>
        \A i \in DOMAIN legacy.team_epa_games.rows :
            LegacyDefaultScores(legacy.team_epa_games.rows[i]) =>
                db_path.team_epa_games.rows[i] =
                    GameScores(sentinel_points, sentinel_points)

(***************************************************************************)
(* Properties of apply_epa_mode.                                           *)
(***************************************************************************)
ModeReturned == pc = "mode_done" /\ mode_result.kind = "DataFrame"

\* the sum of f over the set I
RECURSIVE IndexSum(_, _)
IndexSum(f, I) ==
    IF I = {} THEN 0
    ELSE LET i == CHOOSE x \in I : TRUE IN f[i] + IndexSum(f, I \ {i})

ValuePresent(r, vc) == r[vc] # Missing
\* the plays of a week; a missing play count has no plays to add
PlayCount(r, wc) == IF r[wc] = Missing THEN 0 ELSE r[wc][2]

SameGroup(r, s) == r.season = s.season /\ r.team = s.team

\* the rows of the group of row i with a value, up to the week of row i
WeeksUpTo(t, i, vc) ==
    {j \in DOMAIN t : SameGroup(t[j], t[i]) /\ t[j].week <= t[i].week
                      /\ ValuePresent(t[j], vc)}

\* the group of row i has a positive play count on a week with a value
HasCountedWeek(t, i, vc, wc) ==
    \E j \in DOMAIN t : SameGroup(t[j], t[i]) /\ ValuePresent(t[j], vc)
                        /\ PlayCount(t[j], wc) > 0

\* sum of value * plays over sum of plays; missing while no plays are counted
RunningAverage(t, i, vc, wc) ==
    LET I == WeeksUpTo(t, i, vc)
        plays == IndexSum([j \in DOMAIN t |-> PlayCount(t[j], wc)], I)
        total == IndexSum([j \in DOMAIN t |->
                             IF ValuePresent(t[j], vc)
                             THEN t[j][vc][2] * PlayCount(t[j], wc) ELSE 0], I)
    IN  IF plays = 0 THEN RNaN ELSE Frac(total, plays)

\* the row returned for week wk of the group of r
ReturnedRow(r, wk) ==
    CHOOSE s \in {mode_result.rows[k] : k \in DOMAIN mode_result.rows} :
        SameGroup(s, r) /\ s.week = wk

\* the weeks of the group of row i before the week of row i
EarlierWeeks(t, i) ==
    {t[j].week : j \in {k \in DOMAIN t : SameGroup(t[k], t[i]) /\ t[k].week < t[i].week}}

LastOf(S) == CHOOSE x \in S : \A y \in S : y <= x

\* (value column, weight column, mode column) of the two sides
ModeSides ==
    { <<off_col, off_weight_col, "off_epa_mode">>,
      <<def_col, def_weight_col, "def_epa_mode">> }

\* C18: in mode season_to_date_avg, for a (season, team) group with a positive
\* play count on a week whose value is not missing, the mode value of every week
\* is the sum of value * plays over the weeks up to it that have a value divided
\* by the sum of plays over those weeks (missing while that sum is zero), and at
\* a week whose value is missing it is the mode value of the week before.
C18_WeightedSeasonToDate ==
    (ModeReturned /\ mode = "season_to_date_avg") =>
        \A side \in ModeSides : \A i \in DOMAIN mode_df.rows :
            LET t == mode_df.rows
                vc == side[1]
                wc == side[2]
                mc == side[3]
            IN  (wc \in mode_df.columns /\ HasCountedWeek(t, i, vc, wc)) =>
                    /\ ReturnedRow(t[i], t[i].week)[mc] = RunningAverage(t, i, vc, wc)
                    /\ ~ValuePresent(t[i], vc) =>
                          ReturnedRow(t[i], t[i].week)[mc] =
                              IF EarlierWeeks(t, i) = {} THEN RNaN
                              ELSE ReturnedRow(t[i], LastOf(EarlierWeeks(t, i)))[mc]

\* a returned season-to-date table where a week without an offensive value but
\* with plays follows a counted week, and carries a number
C18_Witness ==
    /\ ModeReturned
    /\ mode = "season_to_date_avg"
    /\ off_weight_col \in mode_df.columns
    /\ \E i \in DOMAIN mode_df.rows :
          /\ ~ValuePresent(mode_df.rows[i], off_col)
          /\ PlayCount(mode_df.rows[i], off_weight_col) > 0
          /\ HasCountedWeek(mode_df.rows, i, off_col, off_weight_col)
          /\ EarlierWeeks(mode_df.rows, i) # {}
          /\ ~IsRNaN(ReturnedRow(mode_df.rows[i], mode_df.rows[i].week).off_epa_mode)

\* the rows of the (season, team) group of r, in table order
GroupOf(t, r) == SelectSeq(t, LAMBDA s : SameGroup(s, r))

\* C19: the rows apply_epa_mode returns for a (season, team) group are the rows
\* it returns for the table that holds that group's rows alone, whatever rows of
\* other teams or other seasons the table holds; and at the first week of a
\* group each mode value is that week's own value or missing.
C19_GroupsIndependent ==
    ModeReturned =>
        \A i \in DOMAIN mode_df.rows :
            LET r == mode_df.rows[i]
                alone == ModeFrame(GroupOf(mode_df.rows, r), mode_df.columns,
                                   mode, window)
                mine == GroupOf(mode_result.rows, r)
            IN  /\ mine = alone
                /\ \A side \in ModeSides :
                      mine[1][side[3]] \in {RNaN, CellFloat(mine[1][side[1]])}

\* a returned season-to-date table with two seasons of one team, the later
\* season's first week carrying its own offensive value
C19_Witness ==
    /\ ModeReturned
    /\ mode = "season_to_date_avg"
    /\ \E i, j \in DOMAIN mode_df.rows :
          /\ mode_df.rows[i].team = mode_df.rows[j].team
          /\ mode_df.rows[i].season < mode_df.rows[j].season
          /\ ValuePresent(mode_df.rows[i], off_col)
          /\ ValuePresent(mode_df.rows[j], off_col)
          /\ mode_df.rows[i].off_epa # mode_df.rows[j].off_epa
          /\ ReturnedRow(mode_df.rows[j], mode_df.rows[j].week).off_epa_mode
                = CellFloat(mode_df.rows[j].off_epa)

(***************************************************************************)
(* The accumulators of compute_sos_adjusted_off_def as normal equations.   *)
(***************************************************************************)
\* the constraint x_plus - x_minus = value of weight weight
Constraint(p, m, wt, y) == [plus |-> p, minus |-> m, weight |-> wt, value |-> y]

\* the constraints a row contributes: its offense side, then its defense side
RowConstraints(row) ==
    (IF OffenseQualifies(row)
     THEN <<Constraint(team_to_idx[row.team], team_to_idx[row.opp] + n,
                       row.off_plays, row.off_epa_pp)>>
     ELSE <<>>)
    \o (IF DefenseQualifies(row)
        THEN <<Constraint(team_to_idx[row.team] + n, team_to_idx[row.opp],
                          row.def_plays, row.def_epa_pp)>>
        ELSE <<>>)

\* the constraints of the first k rows
RECURSIVE PrefixConstraints(_, _)
PrefixConstraints(t, k) ==
    IF k = 0 THEN <<>> ELSE PrefixConstraints(t, k - 1) \o RowConstraints(t[k])

\* what one constraint adds to AtA[i, j]: +w on the two diagonal entries of its
\* unknowns, -w on the two entries that pair them, nothing anywhere else
MatrixShare(c, i, j) ==
    IF (i = c.plus /\ j = c.plus) \/ (i = c.minus /\ j = c.minus) THEN c.weight
    ELSE IF (i = c.plus /\ j = c.minus) \/ (i = c.minus /\ j = c.plus) THEN -c.weight
    ELSE 0

\* what one constraint adds to Atb[i]: +w*y at plus, -w*y at minus
VectorShare(c, i) ==
    IF i = c.plus THEN c.weight * c.value
    ELSE IF i = c.minus THEN -(c.weight * c.value)
    ELSE 0

RECURSIVE MatrixTotal(_, _, _)
MatrixTotal(cs, i, j) ==
    IF cs = <<>> THEN 0 ELSE MatrixShare(Head(cs), i, j) + MatrixTotal(Tail(cs), i, j)

RECURSIVE VectorTotal(_, _)
VectorTotal(cs, i) ==
    IF cs = <<>> THEN 0 ELSE VectorShare(Head(cs), i) + VectorTotal(Tail(cs), i)

\* C20: after any prefix of the rows, AtA and Atb are the weighted least-squares
\* normal equations of the constraints included so far (each constraint
\* x_a - x_b = y of weight w counted +w on AtA[a,a] and AtA[b,b], -w on AtA[a,b]
\* and AtA[b,a], +w*y on Atb[a], -w*y on Atb[b] and nowhere else), and
\* equation_count is the number of those constraints.
C20_NormalEquationsOfPrefix ==
    pc = "accumulate" =>
        LET cs == PrefixConstraints(team_games, row_pos - 1)
        IN  /\ \A i, j \in 0..(total_vars - 1) : AtA[i][j] = MatrixTotal(cs, i, j)
            /\ \A i \in 0..(total_vars - 1) : Atb[i] = VectorTotal(cs, i)
            /\ equation_count = Len(cs)

\* two rows were accumulated into at least three constraints with a
\* non-zero right-hand side
C20_Witness ==
    /\ pc = "accumulate"
    /\ row_pos = 3
    /\ Len(PrefixConstraints(team_games, 2)) >= 3
    /\ equation_count >= 3
    /\ \E i, j \in 0..(total_vars - 1) : i # j /\ AtA[i][j] < 0
    /\ \E i \in 0..(total_vars - 1) : Atb[i] # 0

(***************************************************************************)
(* The regularized system of compute_sos_adjusted_off_def.                 *)
(***************************************************************************)
Unknowns == 0..(total_vars - 1)
IsOffenseIndex(i) == i < n

\* the sum of the absolute off-diagonal entries of row i of a matrix whose
\* off-diagonal entries are not positive
RECURSIVE OffDiagonalSum(_, _, _)
OffDiagonalSum(M, i, j) ==
    IF j < 0 THEN 0
    ELSE (IF j = i THEN 0 ELSE Abs(M[i][j])) + OffDiagonalSum(M, i, j - 1)

\* C21: for lam > 0 the matrix handed to the solver is symmetric, its off-diagonal
\* entries are not positive and are non-zero only between an offense index and a
\* defense index, each diagonal entry is lam plus the sum of the absolute
\* off-diagonal entries of its row, every leading principal minor is positive
\* (the matrix is positive-definite), and the call does not end in LinAlgError.
C21_RegularizedMatrixSPD ==
    /\ (pc = "solve" /\ lam > 0) =>
          /\ \A i, j \in Unknowns : AtA[i][j] = AtA[j][i]
          /\ \A i, j \in Unknowns :
                i # j => /\ AtA[i][j] <= 0
                         /\ AtA[i][j] # 0 => IsOffenseIndex(i) # IsOffenseIndex(j)
          /\ \A i \in Unknowns :
                AtA[i][i] = lam + OffDiagonalSum(AtA, i, total_vars - 1)
          /\ \A k \in 1..total_vars : Det(AtA, k) > 0
    /\ (pc \in {"centre", "return", "done"} /\ lam > 0) => result.kind # "LinAlgError"

\* a regularized matrix built from a row whose team is its own opponent, the
\* team's offense coupled with its own defense
C21_Witness ==
    /\ pc = "solve"
    /\ lam > 0
    /\ \E i \in DOMAIN team_games :
          /\ team_games[i].team = team_games[i].opp
          /\ OffenseQualifies(team_games[i])
          /\ AtA[team_to_idx[team_games[i].team]][team_to_idx[team_games[i].team] + n] < 0
    /\ \E i \in DOMAIN team_games : team_games[i].team # team_games[i].opp

(***************************************************************************)
(* The team index of compute_sos_adjusted_off_def.                         *)
(***************************************************************************)
\* the identifiers a table names, as team or as opp
NamedTeams(t) == {t[i].team : i \in DOMAIN t} \cup {t[i].opp : i \in DOMAIN t}

\* the position of an identifier in sorted order
SortRank(x) == CHOOSE i \in DOMAIN TeamOrder : TeamOrder[i] = x

\* lines 75-83 have run in a call of compute_sos_adjusted_off_def
IndexBuilt ==
    \/ pc \in {"accumulate", "regularize", "solve", "centre", "return"}
    \/ pc = "done" /\ total_vars > 0

\* the solution of the system the call holds, minus its mean
CentredSolution ==
    LET x == Strict(LinSolve(AtA, total_vars, Atb))
        mu == RDivInt(SeqSum([i \in 1..total_vars |-> x[i - 1]]), total_vars)
    IN  Strict([i \in 0..(total_vars - 1) |-> RSub(x[i], mu)])

\* C22: the team universe is the union of the team and opp values in sorted
\* order without repeats; team i of it (from 0) has offense index i in [0, N)
\* and defense index i + N in [N, 2N), so the mapping is injective and the two
\* ranges are disjoint; and a call that solves the system returns one row per
\* team, in that order, with off_rating the centred solution entry i and
\* def_rating the centred solution entry i + N.
C22_IndexMapping ==
    /\ IndexBuilt =>
          /\ {teams[i] : i \in DOMAIN teams} = NamedTeams(team_games)
          /\ \A i, j \in DOMAIN teams : i < j => SortRank(teams[i]) < SortRank(teams[j])
          /\ n = Cardinality(NamedTeams(team_games))
          /\ total_vars = 2 * n
          /\ \A i \in DOMAIN teams :
                /\ off_idx(team_to_idx, teams[i]) = i - 1
                /\ def_idx(team_to_idx, n, teams[i]) = i - 1 + n
          /\ \A x, y \in NamedTeams(team_games) :
                /\ off_idx(team_to_idx, x) \in 0..(n - 1)
                /\ def_idx(team_to_idx, n, y) \in n..(2 * n - 1)
                /\ x # y => /\ off_idx(team_to_idx, x) # off_idx(team_to_idx, y)
                            /\ def_idx(team_to_idx, n, x) # def_idx(team_to_idx, n, y)
    /\ (Returned /\ equation_count > 0) =>
          /\ result.index = teams
          /\ DOMAIN result.off_rating = DOMAIN teams
          /\ DOMAIN result.def_rating = DOMAIN teams
          /\ LET x == CentredSolution
             IN  /\ result.off_rating = [i \in DOMAIN teams |-> x[i - 1]]
                 /\ result.def_rating = [i \in DOMAIN teams |-> x[i - 1 + n]]

\* a returned frame of three teams whose first team has different offense and
\* defense ratings
C22_Witness ==
    /\ Returned
    /\ equation_count > 0
    /\ Len(result.index) = 3
    /\ result.off_rating[1] # result.def_rating[1]
    /\ result.off_rating[1] # result.off_rating[2]

(***************************************************************************)
(* Shifts of the ratings and the residuals of the constraints.             *)
(***************************************************************************)
\* the constants the ratings are shifted by
Shifts == {-1, 1, 2}

\* x_plus - x_minus - value: how far the ratings x are from the constraint c
Residual(x, c) == RSub(RSub(x[c.plus], x[c.minus]), Frac(c.value, 1))

\* every offense rating up by d, every defense rating down by d
OppositeShift(x, d) ==
    [i \in Unknowns |->
        IF IsOffenseIndex(i) THEN RAdd(x[i], Frac(d, 1)) ELSE RSub(x[i], Frac(d, 1))]

\* every rating, offense and defense, up by d
UniformShift(x, d) == [i \in Unknowns |-> RAdd(x[i], Frac(d, 1))]

\* the constraints of the whole table
TableConstraints == PrefixConstraints(team_games, Len(team_games))

\* C23 as stated: shifting every offense rating up by a constant and every
\* defense rating down by the same constant leaves the residual of every
\* accumulated constraint unchanged.
C23_OppositeShiftKeepsResiduals ==
    pc \in {"centre", "return"} =>
        \A d \in Shifts : \A k \in DOMAIN TableConstraints :
            Residual(OppositeShift(ratings, d), TableConstraints[k])
                = Residual(ratings, TableConstraints[k])

\* C23: shifting every rating, offense and defense alike, by the same constant
\* leaves the residual of every accumulated constraint unchanged; the centring of
\* line 130 is such a shift, so the centred ratings have the residuals of the
\* solved ones.
C23_UniformShiftKeepsResiduals ==
    /\ pc \in {"centre", "return"} =>
          \A d \in Shifts : \A k \in DOMAIN TableConstraints :
              Residual(UniformShift(ratings, d), TableConstraints[k])
                  = Residual(ratings, TableConstraints[k])
    /\ pc = "return" =>
          LET x == Strict(LinSolve(AtA, total_vars, Atb))
          IN  \A k \in DOMAIN TableConstraints :
                  Residual(ratings, TableConstraints[k]) = Residual(x, TableConstraints[k])

\* centred ratings of a table with an offense and a defense constraint, not
\* all of them zero
C23_Witness ==
    /\ pc = "return"
    /\ \E i \in DOMAIN team_games : OffenseQualifies(team_games[i])
    /\ \E i \in DOMAIN team_games : DefenseQualifies(team_games[i])
    /\ \E i \in Unknowns : ratings[i] # Zero
    /\ \E k \in DOMAIN TableConstraints : Residual(ratings, TableConstraints[k]) # Zero

(***************************************************************************)
(* compute_sos_adjusted_net_epa as the one-unknown-per-team case.          *)
(***************************************************************************)
\* the split estimator's accumulation (weight > 0, AddEquation) applied to the
\* constraints x_team - x_opp = net_epa_pp of weight plays of the first k rows
RECURSIVE NetRule(_, _)
NetRule(t, k) ==
    IF k = 0
    THEN [AtA |-> ZeroMatrix(n), Atb |-> ZeroVector(n), equation_count |-> 0]
    ELSE IF t[k].plays > 0
         THEN AddEquation(NetRule(t, k - 1), team_to_idx[t[k].team],
                          team_to_idx[t[k].opp], t[k].plays, t[k].net_epa_pp)
         ELSE NetRule(t, k - 1)

NetSolved == pc \in {"net_solve", "net_centre", "net_return"}
NetReturned == pc = "net_done" /\ net_result.kind = "Series"

\* C24: the normal equations of compute_sos_adjusted_net_epa are those the
\* split estimator's accumulation rule builds from the single constraint
\* x_team - x_opp = net_epa_pp of weight plays per row, one unknown per team,
\* with lam added to every diagonal entry; and the returned ratings have mean 0.
C24_NetIsSpecialCase ==
    /\ NetSolved =>
          LET acc == NetRule(team_games, Len(team_games))
          IN  /\ lhs = AddRidge(acc.AtA, n, lam)
              /\ rhs = acc.Atb
    /\ (NetReturned /\ Len(net_result.index) > 0) =>
          SeqSum(net_result.values) = Zero


(***************************************************************************)
(* Properties of compute_team_game_epa: the two perspectives of a game.    *)
(***************************************************************************)

\* the rows of one game between the two teams of row a
PairRows(R, a) ==
    {m \in R : m.game_id = a.game_id /\ {m.team, m.opp} = {a.team, a.opp}}

\* C25: the returned rows come in mirrored pairs: with the row (team A,
\* opp B) of a game the row (team B, opp A) of that game is returned too,
\* a game between two teams that contributes at all contributes exactly
\* two rows, and in a pair A's off_plays is B's def_plays and A's
\* off_epa_sum is the negation of B's def_epa_sum.
C25_MirroredPairs ==
    TeamGamesReturned =>
        LET R == team_game_epa.rows
        IN  \A a \in R :
                /\ \E m \in R : /\ m.game_id = a.game_id
                                /\ m.team = a.opp
                                /\ m.opp = a.team
                                /\ a.off_plays = m.def_plays
                                /\ a.off_epa_sum = -m.def_epa_sum
                /\ Cardinality(PairRows(R, a)) = 2

C25_Witness ==
    /\ TeamGamesReturned
    /\ \E a \in team_game_epa.rows : a.off_epa_sum # 0 /\ a.off_epa_sum # a.def_epa_sum
    /\ \E i \in DOMAIN df : df[i].posteam = "CCC"


(***************************************************************************)
(* Sums of the accumulators of compute_sos_adjusted_off_def.               *)
(***************************************************************************)

\* v[0] + ... + v[k - 1] of a vector of integers
RECURSIVE EntrySum(_, _)
EntrySum(v, k) == IF k = 0 THEN 0 ELSE EntrySum(v, k - 1) + v[k - 1]

\* C26: after any prefix of the rows every row of AtA sums to 0 and the
\* entries of Atb sum to 0; for lam > 0 the solution of the regularized system
\* sums to 0 before the centring step, and the centred ratings are the solved
\* values themselves.
C26_SolutionAlreadyCentred ==
    /\ pc = "accumulate" =>
          /\ \A i \in Unknowns : EntrySum(AtA[i], total_vars) = 0
          /\ EntrySum(Atb, total_vars) = 0
    /\ (pc = "centre" /\ lam > 0) => RSum(ratings, total_vars) = Zero
    /\ (pc = "return" /\ lam > 0) =>
          ratings = Strict(LinSolve(AtA, total_vars, Atb))

\* centred ratings that are not all zero, from two constraints of different
\* weight
C26_Witness ==
    /\ pc = "return"
    /\ lam > 0
    /\ equation_count >= 2
    /\ \E i \in Unknowns : ratings[i] # Zero
    /\ \E i, j \in Unknowns : i # j /\ AtA[i][i] # AtA[j][j] /\ AtA[i][i] > lam /\ AtA[j][j] > lam


(***************************************************************************)
(* compute_split_sos_faced on partially rated opponents.                   *)
(***************************************************************************)

\* the clipped play count of a row on one side
FacedPlays(row, side) ==
    ClipLower0(IF side = "off" THEN row.off_plays ELSE row.def_plays)

\* the sum of rating * plays over the rows of a team whose opponent is rated
RECURSIVE FacedSum(_, _, _, _, _)
FacedSum(t, team, rating, side, k) ==
    IF k = 0 THEN Zero
    ELSE IF /\ t[k].team = team
            /\ FacedPlays(t[k], side) # NaN
            /\ t[k].opp \in DOMAIN rating
         THEN RAdd(FacedSum(t, team, rating, side, k - 1),
                   RMul(rating[t[k].opp], <<FacedPlays(t[k], side), 1>>))
         ELSE FacedSum(t, team, rating, side, k - 1)

\* the plays of a team against the opponents in S
RECURSIVE FacedWeight(_, _, _, _, _)
FacedWeight(t, team, S, side, k) ==
    IF k = 0 THEN 0
    ELSE IF t[k].team = team /\ FacedPlays(t[k], side) # NaN /\ t[k].opp \in S
         THEN FacedWeight(t, team, S, side, k - 1) + FacedPlays(t[k], side)
         ELSE FacedWeight(t, team, S, side, k - 1)

\* the weighted average of the opponents' ratings with an unrated opponent
\* counted as rating 0: its plays are in the denominator only
UnratedAsZero(t, team, rating, side) ==
    Fillna0(FloatDiv(FacedSum(t, team, rating, side, Len(t)),
                     FacedWeight(t, team, AllTeams, side, Len(t))))

\* the table handed to the legacy calculator: plays is the play count of one side
LegacyGames(t, side) ==
    [i \in DOMAIN t |->
        [team |-> t[i].team, opp |-> t[i].opp,
         plays |-> IF side = "off" THEN t[i].off_plays ELSE t[i].def_plays]]

NoNegativePlays(t, team, side) ==
    \A i \in DOMAIN t :
        t[i].team = team =>
            LET p == IF side = "off" THEN t[i].off_plays ELSE t[i].def_plays
            IN  p = NaN \/ p >= 0

SosComputed == SosReturned /\ Len(team_games) > 0

\* C27: compute_split_sos_faced returns, for every team, the average of its
\* opponents' ratings weighted by plays with every unrated opponent counted as
\* rating 0 (its plays enter the denominator, nothing enters the numerator);
\* the legacy compute_sos_faced drops such rows from both sums, so the split
\* value is the legacy value scaled by the rated share of the team's plays.
C27_UnratedOpponentCountsAsZero ==
    SosComputed =>
        \A i \in DOMAIN sos.index :
            LET team == sos.index[i]
                k == Len(team_games)
            IN  /\ sos.sos_off[i] = UnratedAsZero(team_games, team, def_rating, "off")
                /\ sos.sos_def[i] = UnratedAsZero(team_games, team, off_rating, "def")
                /\ (/\ team \in DOMAIN def_rating
                    /\ NoNegativePlays(team_games, team, "off")
                    /\ FacedWeight(team_games, team, AllTeams, "off", k) > 0) =>
                       sos.sos_off[i] =
                           RMul(compute_sos_faced(LegacyGames(team_games, "off"),
                                                  def_rating)[team],
                                Frac(FacedWeight(team_games, team, DOMAIN def_rating, "off", k),
                                     FacedWeight(team_games, team, AllTeams, "off", k)))
                /\ (/\ team \in DOMAIN off_rating
                    /\ NoNegativePlays(team_games, team, "def")
                    /\ FacedWeight(team_games, team, AllTeams, "def", k) > 0) =>
                       sos.sos_def[i] =
                           RMul(compute_sos_faced(LegacyGames(team_games, "def"),
                                                  off_rating)[team],
                                Frac(FacedWeight(team_games, team, DOMAIN off_rating, "def", k),
                                     FacedWeight(team_games, team, AllTeams, "def", k)))

\* B has met the rated A and the unrated C: the split value differs from the
\* legacy value, which is the rating of A alone
C27_Witness ==
    /\ SosComputed
    /\ DOMAIN def_rating = {"A", "B"}
    /\ \E i, j \in DOMAIN team_games :
          /\ team_games[i].team = "B" /\ team_games[i].opp = "A"
          /\ team_games[j].team = "B" /\ team_games[j].opp = "C"
          /\ team_games[i].off_plays \in 1..3 /\ team_games[j].off_plays \in 1..3
    /\ \E i \in DOMAIN sos.index :
          /\ sos.index[i] = "B"
          /\ compute_sos_faced(LegacyGames(team_games, "off"), def_rating)["B"]
                = def_rating["A"]
          /\ sos.sos_off[i] # def_rating["A"]
          /\ sos.sos_off[i] # Zero


(***************************************************************************)
(* compute_sos_adjusted_off_def as a function of its arguments, and the    *)
(* rows that contribute no constraint.                                     *)
(***************************************************************************)

\* lines 91-121: the loop over the first k rows
RECURSIVE Accumulate(_, _, _, _)
Accumulate(t, idx, nTeams, k) ==
    IF k = 0
    THEN [AtA |-> ZeroMatrix(nTeams * 2), Atb |-> ZeroVector(nTeams * 2),
          equation_count |-> 0]
    ELSE RowStep(Accumulate(t, idx, nTeams, k - 1), idx, nTeams, t[k])

\* lines 75-134: the frame returned for a non-empty table with all its columns
OffDefRatings(t, l) ==
    LET ts == TeamUniverse(t)
        nTeams == Len(ts)
        acc == Accumulate(t, Enumerate(ts), nTeams, Len(t))
        M == AddRidge(acc.AtA, nTeams * 2, l)
    IN  IF acc.equation_count = 0 THEN EmptyFrame
        ELSE IF Singular(M, nTeams * 2) THEN Raised("LinAlgError")
        ELSE RatingFrame(ts, nTeams,
                         Centre(Strict(LinSolve(M, nTeams * 2, acc.Atb)), nTeams * 2))

\* the positions of the rows that contribute no constraint on either side
IdleRows(t) ==
    {i \in DOMAIN t : ~OffenseQualifies(t[i]) /\ ~DefenseQualifies(t[i])}

\* a team named only in rows that contribute no constraint
IdleTeam(t, x) ==
    /\ x \in NamedTeams(t)
    /\ \A i \in DOMAIN t : (t[i].team = x \/ t[i].opp = x) => i \in IdleRows(t)

\* the table without the rows at the positions in D
RECURSIVE WithoutRows(_, _, _)
WithoutRows(t, D, k) ==
    IF k = 0 THEN <<>>
    ELSE IF k \in D THEN WithoutRows(t, D, k - 1)
         ELSE Append(WithoutRows(t, D, k - 1), t[k])

Solved == pc = "done" /\ lam > 0 /\ equation_count > 0

\* C28: a call with lam > 0 that accumulates a constraint returns a row for
\* every named team; a team named only in rows that contribute no constraint
\* has off_rating 0 and def_rating 0; and the table without any set of such
\* rows gives every team it still names the same two ratings.
C28_IdleRowsChangeNothing ==
    Solved =>
        /\ result.kind = "DataFrame"
        /\ {result.index[i] : i \in DOMAIN result.index} = NamedTeams(team_games)
        /\ \A i \in DOMAIN result.index :
              IdleTeam(team_games, result.index[i]) =>
                  result.off_rating[i] = Zero /\ result.def_rating[i] = Zero
        /\ \A D \in SUBSET IdleRows(team_games) :
              LET other == OffDefRatings(WithoutRows(team_games, D, Len(team_games)), lam)
              IN  /\ other.kind = "DataFrame"
                  /\ \A j \in DOMAIN other.index :
                        \E i \in DOMAIN result.index :
                            /\ result.index[i] = other.index[j]
                            /\ result.off_rating[i] = other.off_rating[j]
                            /\ result.def_rating[i] = other.def_rating[j]

\* a rated pair of teams next to a team named only in a row without plays
C28_Witness ==
    /\ Solved
    /\ \E x \in NamedTeams(team_games) :
          /\ IdleTeam(team_games, x)
          /\ \E i \in DOMAIN team_games :
                i \in IdleRows(team_games) /\ team_games[i].team = x
    /\ \E i \in DOMAIN result.index : result.off_rating[i] # Zero


(***************************************************************************)
(* compute_sos_adjusted_off_def on the rows of a table in another order.   *)
(***************************************************************************)

\* the orders of k rows
RowOrders(k) == {p \in [1..k -> 1..k] : \A i, j \in 1..k : p[i] = p[j] => i = j}

\* the table with its rows in the order p
Reordered(t, p) == [i \in DOMAIN t |-> t[p[i]]]

AllRowsRead == pc = "accumulate" /\ row_pos > Len(team_games)

Rated == pc = "done" /\ HasAllColumns /\ Len(team_games) > 0

\* the rows last to first
Reversal(k) == [i \in 1..k |-> k + 1 - i]

\* C29: for every order of the rows of the table, the team index mapping is
\* the one the call built and the matrix and vector accumulated over all rows
\* are the ones the call holds when the loop ends and, with the ridge added,
\* when it solves; and the call's result is the result of the table read last
\* row first.
C29_RowOrderIrrelevant ==
    /\ pc \in {"accumulate", "solve"} =>
          \A p \in RowOrders(Len(team_games)) :
              LET t == Reordered(team_games, p)
                  acc == Accumulate(t, team_to_idx, n, Len(t))
              IN  /\ teams = TeamUniverse(t)
                  /\ team_to_idx = Enumerate(TeamUniverse(t))
                  /\ AllRowsRead =>
                        /\ AtA = acc.AtA
                        /\ Atb = acc.Atb
                        /\ equation_count = acc.equation_count
                  /\ pc = "solve" =>
                        /\ AtA = AddRidge(acc.AtA, total_vars, lam)
                        /\ Atb = acc.Atb
                        /\ equation_count = acc.equation_count
    /\ Rated =>
          result = OffDefRatings(Reordered(team_games, Reversal(Len(team_games))), lam)

\* a rated table whose two rows differ and name three teams
C29_Witness ==
    /\ Rated
    /\ result.kind = "DataFrame"
    /\ Len(team_games) = 2
    /\ team_games[1] # team_games[2]
    /\ team_games[1].team = "C"
    /\ OffenseQualifies(team_games[1]) /\ OffenseQualifies(team_games[2])
    /\ \E i \in DOMAIN result.index : result.off_rating[i] # Zero


(***************************************************************************)
(* The weekly table after a sequence of saves.                             *)
(***************************************************************************)

\* the keys a returned save has named
SaveNames(sv, key) ==
    /\ sv.season = key[1]
    /\ sv.week = key[2]
    /\ \E j \in DOMAIN sv.df : sv.df[j].team = key[3]

SavedKeys(h) ==
    UNION {{<<h[i].season, h[i].week, h[i].df[j].team>> : j \in DOMAIN h[i].df} :
              i \in DOMAIN h}

\* the row the most recent save of a key has written: the last row of that
\* team in the last save that names the key, with its per-play values
MostRecent(h, key) ==
    LET i == CHOOSE a \in DOMAIN h :
                 /\ SaveNames(h[a], key)
                 /\ \A c \in DOMAIN h : c > a => ~SaveNames(h[c], key)
        rows == h[i].df
        j == CHOOSE a \in DOMAIN rows :
                 /\ rows[a].team = key[3]
                 /\ \A c \in DOMAIN rows : c > a => rows[c].team # key[3]
    IN  [season |-> key[1], week |-> key[2], team |-> key[3],
         off_epa_sum |-> rows[j].off_epa_sum, off_plays |-> rows[j].off_plays,
         def_epa_sum |-> rows[j].def_epa_sum, def_plays |-> rows[j].def_plays,
         EPA_off_per_play |-> Frac(rows[j].off_epa_sum, rows[j].off_plays),
         EPA_def_per_play |-> Frac(rows[j].def_epa_sum, rows[j].def_plays)]

\* the keys named by a save that is writing its rows
KeysUnderWay ==
    IF pc = "save_execute"
    THEN {<<store_call.season, store_call.week, store_call.df[j].team>> :
             j \in DOMAIN store_call.df}
    ELSE {}

WeeksReturned == pc = "store_idle" /\ store_result.kind = "list"

\* C30: team_epa_weekly holds at most one row per (season, week, team); the
\* row of every key not named by a save under way carries the sums, play
\* counts and per-play values of the most recent returned save of that key,
\* and every key saved has a row; and get_cached_weeks(season) returns the
\* distinct weeks saved for that season in ascending order.
C30_WeeklyTableIsLastSave ==
    /\ \A x, y \in team_epa_weekly : PrimaryKey(x) = PrimaryKey(y) => x = y
    /\ \A x \in team_epa_weekly :
          PrimaryKey(x) \notin KeysUnderWay =>
              /\ PrimaryKey(x) \in SavedKeys(saved)
              /\ x = MostRecent(saved, PrimaryKey(x))
    /\ \A key \in SavedKeys(saved) \ KeysUnderWay :
          MostRecent(saved, key) \in team_epa_weekly
    /\ WeeksReturned =>
          LET weeks == store_result.weeks
          IN  /\ \A i, j \in DOMAIN weeks : i < j => weeks[i] < weeks[j]
              /\ {weeks[i] : i \in DOMAIN weeks} =
                     {key[2] : key \in {x \in SavedKeys(saved) : x[1] = store_call.season}}

\* the second save has overwritten a row of the first and left another row of
\* it alone, and the weeks of that season have been read
C30_Witness ==
    /\ WeeksReturned
    /\ Len(saved) = 2
    /\ saved[1].season = saved[2].season
    /\ saved[1].week = saved[2].week
    /\ store_call.season = saved[1].season
    /\ store_result.weeks = <<saved[1].week>>
    /\ \E i \in DOMAIN saved[1].df, j \in DOMAIN saved[2].df :
          /\ saved[1].df[i].team = saved[2].df[j].team
          /\ saved[1].df[i] # saved[2].df[j]
    /\ \E i \in DOMAIN saved[1].df :
          \A j \in DOMAIN saved[2].df : saved[1].df[i].team # saved[2].df[j].team
    /\ Cardinality(team_epa_weekly) = 2

====
